---- MODULE Spec2Model ----
(***************************************************************************)
(* Model of the two-stage inference orchestrator (inference.py), of the   *)
(* detection dataset's sample loop (det_base.py, MosaicPipeline) and of   *)
(* the augmentation transforms (transforms.py).                            *)
(*                                                                         *)
(* Numbers: box coordinates are kept in tenths of a pixel and scores in   *)
(* hundredths, so that int(x + 0.5) and score < score_thr are computed on *)
(* integers.  Embeddings are points of the integer plane.                 *)
(***************************************************************************)
EXTENDS Integers, Sequences, FiniteSets, TLC

VARIABLES
    pc,             \* position of the control flow inside run() / the called function
    trace,          \* stages executed so far, in order
    error,          \* exception that ended the run, "" when none
    det_outputs,    \* data_dict returned by det_single_device_test
    det_json,       \* detection JSON file (a_det_annotations.json)
    ref_cats,       \* "categories" of the reference annotation file
    qry_cats,       \* "categories" of the query annotation file
    label_mapping,  \* result of get_label_mapping
    outputs_ref,    \* reference embeddings with labels
    outputs_qry,    \* query embeddings with bbox ids
    top_k_list,     \* rank list handed to infer_labels
    mat_inds,       \* infer_labels: argsort of the distance matrix, per query
    outputs,        \* result of infer_labels
    out_json,       \* submission JSON file
    data_infos,     \* dataset: per-sample image info
    test_mode,      \* dataset: test_mode flag
    mosaic,         \* dataset: TRUE when the pipeline is a MosaicPipeline
    dpc,            \* position inside DetBaseDataset.__getitem__
    idx,            \* __getitem__: current index
    prev_idx,       \* __getitem__: index whose pipeline result was rejected last
    data,           \* __getitem__: result of the pipeline for idx
    tiles,          \* MosaicPipeline: indices of the four tiles
    none_deref,     \* TRUE once a field of a None result has been read
    tpc,            \* position inside the constructor / __call__ of a transform
    cfg,            \* arguments the transform is constructed with
    results,        \* the record handed to the transform's __call__
    raised,         \* exception raised by the transform, "" when none
    loc             \* local variables of the transform's __call__

inferVars == <<pc, trace, error, det_outputs, det_json, ref_cats, qry_cats,
               label_mapping, outputs_ref, outputs_qry, top_k_list, mat_inds,
               outputs, out_json>>
dataVars == <<data_infos, test_mode, mosaic, dpc, idx, prev_idx, data, tiles,
              none_deref>>
tfVars == <<tpc, cfg, results, raised, loc>>
vars == <<inferVars, dataVars, tfVars>>

----------------------------------------------------------------------------
(* Bounds of the model *)
MaxImgs == 2        \* images in a detection result
MaxDets == 2        \* detection rows per image
MaxCats == 2        \* categories per taxonomy file
MaxRef == 3         \* reference embeddings
MaxQry == 1         \* query embeddings handed to infer_labels on its own
MaxK == 3           \* largest rank k
FuseMaxDets == 1    \* detection rows per image of a file handed to save_submit_json on its own
RunMaxImgs == 1     \* images in a whole run
RunMaxDets == 1     \* detection rows per image in a whole run
RunMaxRef == 1      \* reference embeddings in a whole run
MaxData == 4        \* samples of the dataset

(* Program constants *)
det_score_thr == 10         \* 0.1 in hundredths
RunTopK == 1                \* top_k=1 passed to save_submit_json
UnknownId == 0              \* id given to an unmatched reference category
BatchOthers == 3            \* batch_rand_others(idx, 3)

----------------------------------------------------------------------------
(* Generic helpers *)
Min(a, b) == IF a < b THEN a ELSE b

SeqsUpTo(S, n) == UNION {[1..m -> S] : m \in 0..n}

Range(s) == {s[i] : i \in DOMAIN s}

IsPrefix(s, t) == Len(s) <= Len(t) /\ \A i \in 1..Len(s) : s[i] = t[i]

\* int(v) of a value given in tenths: truncation toward zero
IntOfTenths(v) == IF v >= 0 THEN v \div 10 ELSE -((-v) \div 10)

NoFile == [written |-> FALSE, images |-> <<>>, annotations |-> <<>>]
NoDetOutputs == [img_names |-> <<>>, img_ids |-> <<>>, detections |-> <<>>]
NoRef == [ready |-> FALSE, embeddings |-> <<>>, labels |-> <<>>]
NoQry == [ready |-> FALSE, embeddings |-> <<>>, bbox_ids |-> <<>>]
NoOutputs == [ready |-> FALSE, bbox_ids |-> <<>>, labels |-> <<>>]

----------------------------------------------------------------------------
(* save_det_json *)

\* rows [x1, y1, x2, y2, score, category_id] a detector can emit
DetRows == { <<4, 16, 255, 366, 10, 0>>, <<100, 105, 149, 154, 5, 3>> }

anno_info(det_row, img_id, bbox_id) ==
    [image_id |-> img_id,
     id |-> bbox_id,
     bbox |-> << IntOfTenths(det_row[1] + 5),
                 IntOfTenths(det_row[2] + 5),
                 IntOfTenths(det_row[3] - det_row[1] + 5),
                 IntOfTenths(det_row[4] - det_row[2] + 5) >>,
     category_id |-> det_row[6],
     score |-> det_row[5]]

BboxIdStuck(bbox_id) == bbox_id

\* bbox_id += 1
BboxIdNext(bbox_id) == bbox_id + 1

\* the inner loop over the rows of one image: the annotations appended and
\* the value of bbox_id after the loop
RECURSIVE AnnosOfImage(_, _, _, _)
AnnosOfImage(det_result, img_id, j, bbox_id) ==
    IF j > Len(det_result)
    THEN [annotations |-> <<>>, bbox_id |-> bbox_id]
    ELSE LET rest == AnnosOfImage(det_result, img_id, j + 1, BboxIdNext(bbox_id))
         IN  [annotations |-> <<anno_info(det_result[j], img_id, bbox_id)>>
                                 \o rest.annotations,
              bbox_id |-> rest.bbox_id]

\* the outer loop over the images, bbox_id being carried from image to image
RECURSIVE SaveDetLoop(_, _, _)
SaveDetLoop(data_dict, i, bbox_id) ==
    IF i > Len(data_dict.detections)
    THEN [images |-> <<>>, annotations |-> <<>>]
    ELSE LET img_id == data_dict.img_ids[i]
             img_info == [file_name |-> data_dict.img_names[i], id |-> img_id]
             inner == AnnosOfImage(data_dict.detections[i], img_id, 1, bbox_id)
             rest == SaveDetLoop(data_dict, i + 1, inner.bbox_id)
         IN  [images |-> <<img_info>> \o rest.images,
              annotations |-> inner.annotations \o rest.annotations]

\* the predictions dict dumped to json_path; json.dump followed by json.load
\* returns lists, string-keyed dicts and numbers unchanged
save_det_json(data_dict) ==
    LET predictions == SaveDetLoop(data_dict, 1, 0)
    IN  [written |-> TRUE, images |-> predictions.images,
         annotations |-> predictions.annotations]

\* what det_single_device_test can return for at most maxImgs images of at
\* most maxDets rows each
DetOutputsSet(maxImgs, maxDets) ==
    { [img_names |-> [i \in 1..Len(d) |-> i],
       img_ids |-> [i \in 1..Len(d) |-> 100 + i],
       detections |-> d] : d \in SeqsUpTo(SeqsUpTo(DetRows, maxDets), maxImgs) }

TotalRows(dets) ==
    LET RECURSIVE Sum(_)
        Sum(i) == IF i = 0 THEN 0 ELSE Len(dets[i]) + Sum(i - 1)
    IN  Sum(Len(dets))

----------------------------------------------------------------------------
(* get_label_mapping *)

RefCatIds == {1, 2, 3}
QryCatIds == {0, 10, 11}
CatNames == {"apple", "banana", "Apple"}

\* category lists with pairwise distinct ids
CatLists(ids, n) ==
    { l \in SeqsUpTo([id : ids, name : CatNames], n) :
        \A a, b \in DOMAIN l : a # b => l[a].id # l[b].id }

\* d[key] = value on a dict kept as a function
DictSet(d, key, value) ==
    [k \in (DOMAIN d) \cup {key} |-> IF k = key THEN value ELSE d[k]]

EmptyDict == [k \in {} |-> 0]

\* the loop filling qry_dict[name] = cid, from position j on
RECURSIVE QryDictLoop(_, _, _)
QryDictLoop(qry_cat_list, j, qd) ==
    IF j > Len(qry_cat_list) THEN qd
    ELSE QryDictLoop(qry_cat_list, j + 1,
                     DictSet(qd, qry_cat_list[j].name, qry_cat_list[j].id))

MappedIdKeepsRefId(cid, name, qd) == IF name \in DOMAIN qd THEN qd[name] ELSE cid

\* the id stored for the reference category (cid, name)
MappedId(cid, name, qd) == IF name \in DOMAIN qd THEN qd[name] ELSE UnknownId

\* the loop filling mapping_dict[cid], from position j on
RECURSIVE MappingLoop(_, _, _, _)
MappingLoop(ref_cat_list, j, qd, mapping_dict) ==
    IF j > Len(ref_cat_list) THEN mapping_dict
    ELSE MappingLoop(ref_cat_list, j + 1, qd,
                     DictSet(mapping_dict, ref_cat_list[j].id,
                             MappedId(ref_cat_list[j].id, ref_cat_list[j].name, qd)))

get_label_mapping(ref_cat_list, qry_cat_list) ==
    MappingLoop(ref_cat_list, 1, QryDictLoop(qry_cat_list, 1, EmptyDict), EmptyDict)

----------------------------------------------------------------------------
(* infer_labels *)

\* embeddings the model can produce for reference crops and for query crops:
\* two references at the same distance from the query, a third farther away
RefPoints == { <<0, 0>>, <<2, 0>>, <<3, 3>> }
QryPoints == { <<1, 0>> }

\* LpDistance with p = 2, squared: the square root is strictly increasing and
\* the distances are only compared with each other
dist_func(a, b) == (a[1] - b[1]) * (a[1] - b[1]) + (a[2] - b[2]) * (a[2] - b[2])

\* one row of mat: the distances from a query to every reference
MatRow(qry, ref_emb) == [j \in 1..Len(ref_emb) |-> dist_func(qry, ref_emb[j])]

Perms(n) == { p \in [1..n -> 1..n] : \A a, b \in 1..n : a # b => p[a] # p[b] }

\* np.argsort(row): every order of the positions that is ascending in the
\* values; the default sort is not stable, equal values come in any order
ArgsortSet(row) ==
    { p \in Perms(Len(row)) :
        \A a, b \in 1..Len(row) : a < b => row[p[a]] <= row[p[b]] }

\* np.argsort(mat, axis=1): one such order for each query
RECURSIVE ArgsortRows(_, _)
ArgsortRows(qry_emb, ref_emb) ==
    IF qry_emb = <<>> THEN { <<>> }
    ELSE { Append(rows, p) :
             rows \in ArgsortRows(SubSeq(qry_emb, 1, Len(qry_emb) - 1), ref_emb),
             p \in ArgsortSet(MatRow(qry_emb[Len(qry_emb)], ref_emb)) }

\* pred_labels[i, :k] for the row of sorted positions inds
TopWindow(ref_labels, inds, k) ==
    [a \in 1..Min(k, Len(inds)) |-> ref_labels[inds[a]]]

\* Counter(top_k): a tally in insertion order, <<key, count>> entries
CounterAdd(tally, x) ==
    IF \E j \in DOMAIN tally : tally[j][1] = x
    THEN [j \in DOMAIN tally |->
             IF tally[j][1] = x THEN <<x, tally[j][2] + 1>> ELSE tally[j]]
    ELSE Append(tally, <<x, 1>>)

RECURSIVE Counter(_)
Counter(seq) ==
    IF seq = <<>> THEN <<>>
    ELSE CounterAdd(Counter(SubSeq(seq, 1, Len(seq) - 1)), seq[Len(seq)])

MostCommonLast(votes) ==
    LET j == CHOOSE c \in DOMAIN votes :
                 \A m \in DOMAIN votes :
                    /\ votes[m][2] <= votes[c][2]
                    /\ m > c => votes[m][2] < votes[c][2]
    IN  votes[j][1]

\* votes.most_common(1)[0][0]: max() over the items by count returns the
\* first entry, in insertion order, that has the highest count
MostCommon(votes) ==
    LET j == CHOOSE c \in DOMAIN votes :
                 \A m \in DOMAIN votes :
                    /\ votes[m][2] <= votes[c][2]
                    /\ m < c => votes[m][2] < votes[c][2]
    IN  votes[j][1]

\* the k == 1 branch: pred_labels[i, 0]
Top1Label(mapping, ref_labels, inds) == ref_labels[inds[1]]

\* the k > 1 branch for one query
VoteLabel(mapping, ref_labels, inds, k) ==
    mapping[MostCommon(Counter(TopWindow(ref_labels, inds, k)))]

\* the result dict; labels[k] stands for result['labels_top_k']
infer_labels(qry_out, ref_out, mapping, rank_list, inds) ==
    [ready |-> TRUE,
     bbox_ids |-> qry_out.bbox_ids,
     labels |-> [k \in Range(rank_list) |->
                    [i \in 1..Len(qry_out.embeddings) |->
                        IF k = 1
                        THEN Top1Label(mapping, ref_out.labels, inds[i])
                        ELSE VoteLabel(mapping, ref_out.labels, inds[i], k)]]]

\* rank lists: a single rank, or every rank up to maxK in ascending order
RankLists(maxK) == { <<k>> : k \in 1..maxK } \cup { [a \in 1..maxK |-> a] }

RefOutputsSet(points, labelIds, n) ==
    { [ready |-> TRUE,
       embeddings |-> [j \in DOMAIN r |-> r[j][1]],
       labels |-> [j \in DOMAIN r |-> r[j][2]]] :
         r \in (SeqsUpTo(points \X labelIds, n) \ {<<>>}) }

----------------------------------------------------------------------------
(* save_submit_json *)

\* the loop building pred_dict[bbox_id] = labels[i]
RECURSIVE PredDictLoop(_, _, _, _)
PredDictLoop(bbox_ids, labels, i, pred_dict) ==
    IF i > Len(bbox_ids) THEN pred_dict
    ELSE PredDictLoop(bbox_ids, labels, i + 1,
                      DictSet(pred_dict, bbox_ids[i], labels[i]))

DropsAtThreshold(ann, score_thr) == ann.score <= score_thr

\* if ann['score'] < score_thr: continue
BelowThreshold(ann, score_thr) == ann.score < score_thr

RelabelWritesId(ann, pred_dict) == [ann EXCEPT !.id = pred_dict[ann.id]]

\* label = pred_dict[ann['id']]; ann['category_id'] = int(label)
Relabel(ann, pred_dict) == [ann EXCEPT !.category_id = pred_dict[ann.id]]

FuseStepScoreFirst(ann, pred_dict, score_thr, ann_new) ==
    IF BelowThreshold(ann, score_thr)
    THEN [error |-> "", ann_new |-> ann_new]
    ELSE IF ann.id \notin DOMAIN pred_dict
         THEN [error |-> "AssertionError", ann_new |-> ann_new]
         ELSE [error |-> "", ann_new |-> Append(ann_new, Relabel(ann, pred_dict))]

FuseStepSkipsMissing(ann, pred_dict, score_thr, ann_new) ==
    IF ann.id \notin DOMAIN pred_dict \/ BelowThreshold(ann, score_thr)
    THEN [error |-> "", ann_new |-> ann_new]
    ELSE [error |-> "", ann_new |-> Append(ann_new, Relabel(ann, pred_dict))]

\* one pass of the loop body over data_ori['annotations']: the assert comes
\* first, then the score test, then the relabelled annotation is appended
FuseStep(ann, pred_dict, score_thr, ann_new) ==
    IF ann.id \notin DOMAIN pred_dict
    THEN [error |-> "AssertionError", ann_new |-> ann_new]
    ELSE IF BelowThreshold(ann, score_thr)
         THEN [error |-> "", ann_new |-> ann_new]
         ELSE [error |-> "", ann_new |-> Append(ann_new, Relabel(ann, pred_dict))]

\* the loop from position j on, ann_new being the list built so far; an
\* exception leaves the loop
RECURSIVE FuseLoop(_, _, _, _, _)
FuseLoop(annotations, pred_dict, score_thr, j, ann_new) ==
    IF j > Len(annotations) THEN [error |-> "", ann_new |-> ann_new]
    ELSE LET step == FuseStep(annotations[j], pred_dict, score_thr, ann_new)
         IN  IF step.error # "" THEN step
             ELSE FuseLoop(annotations, pred_dict, score_thr, j + 1, step.ann_new)

SaveSubmitLargestK(outs, det_file, score_thr, top_k) ==
    LET k == CHOOSE m \in DOMAIN outs.labels : \A n \in DOMAIN outs.labels : n <= m
        pred_dict == PredDictLoop(outs.bbox_ids, outs.labels[k], 1, EmptyDict)
        fused == FuseLoop(det_file.annotations, pred_dict, score_thr, 1, <<>>)
    IN  IF fused.error # ""
        THEN [error |-> fused.error, file |-> NoFile]
        ELSE [error |-> "",
              file |-> [written |-> TRUE, images |-> det_file.images,
                        annotations |-> fused.ann_new]]

\* the outcome of save_submit_json: the exception raised, if any, and the
\* file written otherwise
save_submit_json(outs, det_file, score_thr, top_k) ==
    IF top_k \notin DOMAIN outs.labels
    THEN [error |-> "KeyError", file |-> NoFile]
    ELSE LET pred_dict == PredDictLoop(outs.bbox_ids, outs.labels[top_k], 1, EmptyDict)
             fused == FuseLoop(det_file.annotations, pred_dict, score_thr, 1, <<>>)
         IN  IF fused.error # ""
             THEN [error |-> fused.error, file |-> NoFile]
             ELSE [error |-> "",
                   file |-> [written |-> TRUE, images |-> det_file.images,
                             annotations |-> fused.ann_new]]

----------------------------------------------------------------------------
(* DetBaseDataset and the transform pipeline *)

\* (width, height) of the images; both pass _filter_imgs (min side >= 32)
ImgShapes == { <<64, 48>>, <<48, 64>> }

\* what the ground truth of a sample lets a random crop do: "no_box" has no
\* box at all, "partial" has boxes some crops miss, "full" has a box that
\* every crop meets
AnnKinds == {"no_box", "partial", "full"}

DataInfosSet(n) ==
    { d \in SeqsUpTo([width : {sh[1] : sh \in ImgShapes},
                      height : {sh[2] : sh \in ImgShapes},
                      ann : AnnKinds], n) :
        /\ Len(d) >= 1
        /\ \A i \in DOMAIN d : <<d[i].width, d[i].height>> \in ImgShapes }

\* _set_group_flag: 1 when width / height > 1, else 0; width and height are
\* positive, so the quotient exceeds 1 exactly when width > height
flag(infos, i) == IF infos[i].width > infos[i].height THEN 1 ELSE 0

\* _rand_another: np.random.choice over every index with the flag of i
rand_another_pool(infos, i) ==
    { j \in DOMAIN infos : flag(infos, j) = flag(infos, i) }

BatchRandOthersKeepsSelf(infos, i, batch) ==
    LET pool == rand_another_pool(infos, i)
    IN  IF Cardinality(pool) < batch THEN [1..batch -> pool]
        ELSE { s \in [1..batch -> pool] :
                 \A a, b \in 1..batch : a # b => s[a] # s[b] }

\* batch_rand_others(i, batch): the sequences np.random.choice can return
batch_rand_others(infos, i, batch) ==
    LET pool == rand_another_pool(infos, i) \ {i}
    IN  IF pool = {} THEN { [a \in 1..batch |-> i] }
        ELSE IF Cardinality(pool) < batch THEN [1..batch -> pool]
        ELSE { s \in [1..batch -> pool] :
                 \A a, b \in 1..batch : a # b => s[a] # s[b] }

\* JointRandomCrop with allow_negative_crop = False: TRUE stands for the
\* None it returns when no gt box keeps a positive area in the crop
CropRejects(ann) ==
    CASE ann = "no_box" -> {TRUE}
      [] ann = "partial" -> {TRUE, FALSE}
      [] OTHER -> {FALSE}

\* Compose.__call__ over stages of which only the crop can return None: the
\* None leaves the loop and is returned
Compose(infos, i) == CropRejects(infos[i].ann)

NoData == [none |-> FALSE, of |-> <<>>]

----------------------------------------------------------------------------
(* Idle parts, for the specifications that leave one half alone *)

InferIdle ==
    /\ pc = "idle" /\ trace = <<>> /\ error = ""
    /\ det_outputs = NoDetOutputs /\ det_json = NoFile
    /\ ref_cats = <<>> /\ qry_cats = <<>> /\ label_mapping = EmptyDict
    /\ outputs_ref = NoRef /\ outputs_qry = NoQry
    /\ top_k_list = <<>> /\ mat_inds = <<>>
    /\ outputs = NoOutputs /\ out_json = NoFile

DataIdle ==
    /\ data_infos = <<>> /\ test_mode = FALSE /\ mosaic = FALSE
    /\ dpc = "idle" /\ idx = 0 /\ prev_idx = 0
    /\ data = NoData /\ tiles = <<>> /\ none_deref = FALSE

NoCfg == [type |-> "none"]
NoResults == [img_shape |-> <<>>]
NoLoc == [mode |-> -1]

TfIdle ==
    /\ tpc = "idle" /\ cfg = NoCfg /\ results = NoResults
    /\ raised = "" /\ loc = NoLoc

----------------------------------------------------------------------------
(* The stages of run() *)

StageOrder == << "DETECT", "SERIALIZE_DETECTIONS", "BUILD_LABEL_MAPPING",
                 "EMBED_REFERENCE", "EMBED_QUERY", "INFER_LABELS",
                 "FUSE_AND_SERIALIZE" >>

StageAfterSkipsSerialize(stage) ==
    CASE stage = "DETECT" -> "BUILD_LABEL_MAPPING"
      [] stage = "BUILD_LABEL_MAPPING" -> "EMBED_REFERENCE"
      [] stage = "EMBED_REFERENCE" -> "EMBED_QUERY"
      [] stage = "EMBED_QUERY" -> "INFER_LABELS"
      [] stage = "INFER_LABELS" -> "FUSE_AND_SERIALIZE"
      [] OTHER -> "done"

\* the call order in run(), run_det_task() and run_emb_task()
StageAfter(stage) ==
    CASE stage = "DETECT" -> "SERIALIZE_DETECTIONS"
      [] stage = "SERIALIZE_DETECTIONS" -> "BUILD_LABEL_MAPPING"
      [] stage = "BUILD_LABEL_MAPPING" -> "EMBED_REFERENCE"
      [] stage = "EMBED_REFERENCE" -> "EMBED_QUERY"
      [] stage = "EMBED_QUERY" -> "INFER_LABELS"
      [] stage = "INFER_LABELS" -> "FUSE_AND_SERIALIZE"
      [] OTHER -> "done"

Advance ==
    /\ trace' = Append(trace, pc)
    /\ pc' = StageAfter(pc)

\* det_single_device_test inside run_det_task
Detect ==
    /\ pc = "DETECT"
    /\ \E d \in DetOutputsSet(RunMaxImgs, RunMaxDets) : det_outputs' = d
    /\ Advance
    /\ UNCHANGED <<error, det_json, ref_cats, qry_cats, label_mapping,
                   outputs_ref, outputs_qry, top_k_list, mat_inds, outputs,
                   out_json, dataVars, tfVars>>

\* save_det_json(outputs, json_path)
SaveDetJson ==
    /\ pc = "SERIALIZE_DETECTIONS"
    /\ det_json' = save_det_json(det_outputs)
    /\ Advance
    /\ UNCHANGED <<error, det_outputs, ref_cats, qry_cats, label_mapping,
                   outputs_ref, outputs_qry, top_k_list, mat_inds, outputs,
                   out_json, dataVars, tfVars>>

\* label_mapping = get_label_mapping(ref_json_path, qry_json_path)
GetLabelMapping ==
    /\ pc = "BUILD_LABEL_MAPPING"
    /\ label_mapping' = get_label_mapping(ref_cats, qry_cats)
    /\ Advance
    /\ UNCHANGED <<error, det_outputs, det_json, ref_cats, qry_cats,
                   outputs_ref, outputs_qry, top_k_list, mat_inds, outputs,
                   out_json, dataVars, tfVars>>

\* reference embeddings met in a whole run
RunRefPoints == { <<0, 0>>, <<3, 3>> }

\* emb_single_device_test(model, data_loader_ref, with_label=True); the
\* labels are category ids of the reference taxonomy
EmbedReference ==
    /\ pc = "EMBED_REFERENCE"
    /\ \E r \in RefOutputsSet(RunRefPoints,
                             {ref_cats[j].id : j \in DOMAIN ref_cats}, RunMaxRef) :
          outputs_ref' = r
    /\ Advance
    /\ UNCHANGED <<error, det_outputs, det_json, ref_cats, qry_cats,
                   label_mapping, outputs_qry, top_k_list, mat_inds, outputs,
                   out_json, dataVars, tfVars>>

\* the ascending sequence of the elements of a set of numbers
SortedSeq(S) ==
    CHOOSE s \in [1..Cardinality(S) -> S] :
        \A a, b \in 1..Cardinality(S) : a < b => s[a] < s[b]

\* emb_single_device_test(model, data_loader_qry, with_label=False): the
\* query dataset holds crops of the detection file, each with its bbox id
EmbedQuery ==
    /\ pc = "EMBED_QUERY"
    /\ \E S \in SUBSET {det_json.annotations[j].id : j \in DOMAIN det_json.annotations} :
          \E e \in [1..Cardinality(S) -> QryPoints] :
              outputs_qry' = [ready |-> TRUE, embeddings |-> e, bbox_ids |-> SortedSeq(S)]
    /\ Advance
    /\ UNCHANGED <<error, det_outputs, det_json, ref_cats, qry_cats,
                   label_mapping, outputs_ref, top_k_list, mat_inds, outputs,
                   out_json, dataVars, tfVars>>

\* outputs = infer_labels(outputs_qry, outputs_ref, label_mapping, top_k_list)
InferLabels ==
    /\ pc = "INFER_LABELS"
    /\ \E inds \in ArgsortRows(outputs_qry.embeddings, outputs_ref.embeddings) :
          /\ mat_inds' = inds
          /\ outputs' = infer_labels(outputs_qry, outputs_ref, label_mapping,
                                     top_k_list, inds)
    /\ Advance
    /\ UNCHANGED <<error, det_outputs, det_json, ref_cats, qry_cats,
                   label_mapping, outputs_ref, outputs_qry, top_k_list,
                   out_json, dataVars, tfVars>>

\* save_submit_json(outputs, det_json_path, out_json_path, score_thr, top_k=1)
SaveSubmitJson ==
    /\ pc = "FUSE_AND_SERIALIZE"
    /\ LET r == save_submit_json(outputs, det_json, det_score_thr, RunTopK)
       IN  /\ error' = r.error
           /\ out_json' = r.file
           /\ trace' = Append(trace, pc)
           /\ pc' = IF r.error = "" THEN StageAfter(pc) ELSE "failed"
    /\ UNCHANGED <<det_outputs, det_json, ref_cats, qry_cats, label_mapping,
                   outputs_ref, outputs_qry, top_k_list, mat_inds, outputs,
                   dataVars, tfVars>>

----------------------------------------------------------------------------
(* Specification of a whole run: run() with top_k_list=[1] *)

RunRefCats == { << [id |-> 1, name |-> "apple"], [id |-> 2, name |-> "banana"] >> }
RunQryCats == { << [id |-> 10, name |-> "apple"], [id |-> 11, name |-> "banana"] >>,
                << [id |-> 10, name |-> "apple"] >> }

Init ==
    /\ pc = "DETECT" /\ trace = <<>> /\ error = ""
    /\ det_outputs = NoDetOutputs /\ det_json = NoFile
    /\ ref_cats \in RunRefCats /\ qry_cats \in RunQryCats
    /\ label_mapping = EmptyDict
    /\ outputs_ref = NoRef /\ outputs_qry = NoQry
    /\ top_k_list = <<1>> /\ mat_inds = <<>>
    /\ outputs = NoOutputs /\ out_json = NoFile
    /\ DataIdle
    /\ TfIdle

Next ==
    \/ Detect
    \/ SaveDetJson
    \/ GetLabelMapping
    \/ EmbedReference
    \/ EmbedQuery
    \/ InferLabels
    \/ SaveSubmitJson

Spec == Init /\ [][Next]_vars

----------------------------------------------------------------------------
(* Specifications of the single functions, on inputs drawn from bounded sets *)

\* save_det_json on any detection result
InitDet ==
    /\ pc = "SERIALIZE_DETECTIONS" /\ trace = <<>> /\ error = ""
    /\ det_outputs \in DetOutputsSet(MaxImgs, MaxDets) /\ det_json = NoFile
    /\ ref_cats = <<>> /\ qry_cats = <<>> /\ label_mapping = EmptyDict
    /\ outputs_ref = NoRef /\ outputs_qry = NoQry
    /\ top_k_list = <<>> /\ mat_inds = <<>>
    /\ outputs = NoOutputs /\ out_json = NoFile
    /\ DataIdle
    /\ TfIdle

NextDet == SaveDetJson

SpecDet == InitDet /\ [][NextDet]_vars

\* get_label_mapping on any two category lists
InitMap ==
    /\ pc = "BUILD_LABEL_MAPPING" /\ trace = <<>> /\ error = ""
    /\ det_outputs = NoDetOutputs /\ det_json = NoFile
    /\ ref_cats \in CatLists(RefCatIds, MaxCats)
    /\ qry_cats \in CatLists(QryCatIds, MaxCats)
    /\ label_mapping = EmptyDict
    /\ outputs_ref = NoRef /\ outputs_qry = NoQry
    /\ top_k_list = <<>> /\ mat_inds = <<>>
    /\ outputs = NoOutputs /\ out_json = NoFile
    /\ DataIdle
    /\ TfIdle

NextMap == GetLabelMapping

SpecMap == InitMap /\ [][NextMap]_vars

\* infer_labels on any embeddings, label mapping and rank list
KnnLabels == {1, 2}
KnnMappings == { (1 :> 10) @@ (2 :> 11) }

InitKnn ==
    /\ pc = "INFER_LABELS" /\ trace = <<>> /\ error = ""
    /\ det_outputs = NoDetOutputs /\ det_json = NoFile
    /\ ref_cats = <<>> /\ qry_cats = <<>>
    /\ label_mapping \in KnnMappings
    /\ outputs_ref \in RefOutputsSet(RefPoints, KnnLabels, MaxRef)
    /\ \E e \in (SeqsUpTo(QryPoints, MaxQry) \ {<<>>}) :
          outputs_qry = [ready |-> TRUE, embeddings |-> e,
                         bbox_ids |-> [i \in DOMAIN e |-> 4 + i]]
    /\ top_k_list \in RankLists(MaxK)
    /\ mat_inds = <<>>
    /\ outputs = NoOutputs /\ out_json = NoFile
    /\ DataIdle
    /\ TfIdle

NextKnn == InferLabels

SpecKnn == InitKnn /\ [][NextKnn]_vars

\* save_submit_json on any detection file and any inferred labels
FuseLabels == {10, 11}

InitFuse ==
    /\ pc = "FUSE_AND_SERIALIZE" /\ trace = <<>> /\ error = ""
    /\ det_outputs = NoDetOutputs
    /\ \E d \in DetOutputsSet(MaxImgs, FuseMaxDets) : det_json = save_det_json(d)
    /\ ref_cats = <<>> /\ qry_cats = <<>> /\ label_mapping = EmptyDict
    /\ outputs_ref = NoRef /\ outputs_qry = NoQry
    /\ top_k_list = <<1>> /\ mat_inds = <<>>
    /\ \E S \in SUBSET {det_json.annotations[j].id : j \in DOMAIN det_json.annotations} :
          \E l \in [1..Cardinality(S) -> FuseLabels] :
              outputs = [ready |-> TRUE, bbox_ids |-> SortedSeq(S),
                         labels |-> (1 :> l)]
    /\ out_json = NoFile
    /\ DataIdle
    /\ TfIdle

NextFuse == SaveSubmitJson

SpecFuse == InitFuse /\ [][NextFuse]_vars

\* run_emb_task from infer_labels on, for any top_k_list: the query
\* embeddings are those of every annotation of the detection file
InitEmb ==
    /\ pc = "INFER_LABELS" /\ trace = <<>> /\ error = ""
    /\ det_outputs = NoDetOutputs
    /\ \E d \in DetOutputsSet(RunMaxImgs, RunMaxDets) : det_json = save_det_json(d)
    /\ ref_cats = <<>> /\ qry_cats = <<>>
    /\ label_mapping \in KnnMappings
    /\ outputs_ref \in RefOutputsSet(RefPoints, KnnLabels, RunMaxRef)
    /\ \E e \in [DOMAIN det_json.annotations -> QryPoints] :
          outputs_qry = [ready |-> TRUE, embeddings |-> e,
                         bbox_ids |-> [j \in DOMAIN det_json.annotations |->
                                         det_json.annotations[j].id]]
    /\ top_k_list \in RankLists(MaxK)
    /\ mat_inds = <<>>
    /\ outputs = NoOutputs /\ out_json = NoFile
    /\ DataIdle
    /\ TfIdle

NextEmb == InferLabels \/ SaveSubmitJson

SpecEmb == InitEmb /\ [][NextEmb]_vars

----------------------------------------------------------------------------
(* DetBaseDataset.__getitem__ *)

\* __getitem__(i) is entered
GetItem ==
    /\ dpc = "idle"
    /\ \E i \in DOMAIN data_infos : idx' = i
    /\ dpc' = IF test_mode THEN "prepare_test_img" ELSE "prepare_train_img"
    /\ UNCHANGED <<data_infos, test_mode, mosaic, prev_idx, data, tiles,
                   none_deref, inferVars, tfVars>>

\* self.pipeline(results) for a pipeline without MosaicPipeline
ComposePipeline ==
    /\ dpc \in {"prepare_test_img", "prepare_train_img"}
    /\ ~mosaic
    /\ \E rejected \in Compose(data_infos, idx) :
          data' = [none |-> rejected, of |-> <<idx>>]
    /\ dpc' = IF test_mode THEN "returned" ELSE "check"
    /\ UNCHANGED <<data_infos, test_mode, mosaic, idx, prev_idx, tiles,
                   none_deref, inferVars, tfVars>>

\* self.pipeline(results) for a pipeline that starts with MosaicPipeline:
\* three other indices are drawn, the individual pipeline runs on the four
\* tiles, and results["pad_shape"] is read from each of the four results
MosaicCall ==
    /\ dpc = "prepare_train_img"
    /\ mosaic
    /\ \E indices \in batch_rand_others(data_infos, idx, BatchOthers) :
          LET four == <<idx>> \o indices
          IN  \E rejected \in [1..4 -> BOOLEAN] :
                /\ \A t \in 1..4 : rejected[t] \in Compose(data_infos, four[t])
                /\ tiles' = four
                /\ IF \E t \in 1..4 : rejected[t]
                   THEN /\ none_deref' = TRUE
                        /\ dpc' = "raised"
                        /\ data' = data
                   ELSE /\ none_deref' = none_deref
                        /\ dpc' = "check"
                        /\ data' = [none |-> FALSE, of |-> four]
    /\ UNCHANGED <<data_infos, test_mode, mosaic, idx, prev_idx, inferVars, tfVars>>

\* if data is None: idx = self._rand_another(idx); continue
Resample ==
    /\ dpc = "check"
    /\ data.none
    /\ prev_idx' = idx
    /\ \E j \in rand_another_pool(data_infos, idx) : idx' = j
    /\ dpc' = "prepare_train_img"
    /\ UNCHANGED <<data_infos, test_mode, mosaic, data, tiles, none_deref,
                   inferVars, tfVars>>

\* return data
ReturnData ==
    /\ dpc = "check"
    /\ ~data.none
    /\ dpc' = "returned"
    /\ UNCHANGED <<data_infos, test_mode, mosaic, idx, prev_idx, data, tiles,
                   none_deref, inferVars, tfVars>>

InitData ==
    /\ InferIdle
    /\ TfIdle
    /\ data_infos \in DataInfosSet(MaxData)
    /\ test_mode \in BOOLEAN
    /\ mosaic \in BOOLEAN
    /\ test_mode => ~mosaic
    /\ dpc = "idle" /\ idx = 0 /\ prev_idx = 0
    /\ data = NoData /\ tiles = <<>> /\ none_deref = FALSE

NextData ==
    \/ GetItem
    \/ ComposePipeline
    \/ MosaicCall
    \/ Resample
    \/ ReturnData

SpecData == InitData /\ [][NextData]_vars

\* np.random.choice and the random draws of the crop are fair: a draw that is
\* possible infinitely often is made, so an index the pipeline can accept is
\* drawn and an acceptable crop of it is drawn
SpecDataFair ==
    /\ SpecData
    /\ WF_vars(NextData)
    /\ SF_vars(Resample /\ FALSE \in Compose(data_infos, idx'))
    /\ SF_vars(ComposePipeline /\ ~data'.none)

----------------------------------------------------------------------------
(* Constructors of Pad and JointResize, and JointResize._random_scale.  An
   optional argument is a sequence of length at most one: None is <<>>. *)

MaxScales == 3      \* longest img_scale list handed to JointResize

None == <<>>
Some(x) == <<x>>

PadInitAcceptsBoth(size, size_divisor) ==
    IF ~(size # None \/ size_divisor # None) THEN "AssertionError" ELSE ""

\* Pad.__init__: the exception its two asserts raise, "" when none
PadInit(size, size_divisor) ==
    IF ~(size # None \/ size_divisor # None) THEN "AssertionError"
    ELSE IF ~(size = None \/ size_divisor = None) THEN "AssertionError"
    ELSE ""

\* smallest multiple of d that is >= n (d > 0)
CeilMultiple(n, d) == ((n + d - 1) \div d) * d

\* impad(img, shape=size): the padded shape
impad(shape, size) == size

\* impad_to_multiple(img, divisor): the padded shape
impad_to_multiple(shape, divisor) ==
    << CeilMultiple(shape[1], divisor), CeilMultiple(shape[2], divisor) >>

\* Pad._pad_img on the shape of the image
pad_img(c, r) ==
    LET padded == IF c.size # None THEN impad(r.img_shape, c.size[1])
                  ELSE impad_to_multiple(r.img_shape, c.size_divisor[1])
    IN  [r EXCEPT !.pad_shape = padded,
                  !.pad_fixed_size = c.size,
                  !.pad_size_divisor = c.size_divisor]

PadShapes == { <<4, 6>>, <<8, 8>> }
PadDivisors == { 4, 32 }
TfImgShapes == { <<3, 5>>, <<4, 4>>, <<6, 7>> }

PadCfgs ==
    { [type |-> "Pad", size |-> sz, size_divisor |-> d] :
        sz \in {None} \cup { Some(x) : x \in PadShapes },
        d \in {None} \cup { Some(x) : x \in PadDivisors } }

PadRecords ==
    { [img_shape |-> sh, pad_shape |-> None, pad_fixed_size |-> None,
       pad_size_divisor |-> None] : sh \in TfImgShapes }

\* Pad(size, size_divisor)
PadConstruct ==
    /\ tpc = "init"
    /\ cfg.type = "Pad"
    /\ raised' = PadInit(cfg.size, cfg.size_divisor)
    /\ tpc' = IF raised' = "" THEN "constructed" ELSE "raised_at_init"
    /\ UNCHANGED <<cfg, results, loc, inferVars, dataVars>>

\* Pad.__call__(results)
PadCall ==
    /\ tpc = "constructed"
    /\ cfg.type = "Pad"
    /\ \E r \in PadRecords : results' = pad_img(cfg, r)
    /\ tpc' = "returned"
    /\ UNCHANGED <<cfg, raised, loc, inferVars, dataVars>>

\* img_scale arguments: None, one scale given as a list, one scale given as
\* a tuple, or a list of scales
ScaleSet == { <<4, 2>>, <<6, 3>> }
ImgScaleArgs ==
    {[kind |-> "None"]}
    \cup { [kind |-> "list", v |-> sc] : sc \in ScaleSet }
    \cup { [kind |-> "tuple", v |-> sc] : sc \in ScaleSet }
    \cup { [kind |-> "list_of_list", vs |-> l] : l \in SeqsUpTo(ScaleSet, MaxScales) }

\* ratio_range in tenths
RatioRanges == { None, Some(<<5, 15>>), Some(<<15, 5>>) }
MultiscaleModes == { "range", "value", "nearest" }

ResizeCfgs ==
    { [type |-> "JointResize", img_scale |-> a, multiscale_mode |-> m,
       ratio_range |-> rr] :
        a \in ImgScaleArgs, m \in MultiscaleModes, rr \in RatioRanges }

\* self.img_scale after the first lines of JointResize.__init__: a list of
\* elements [kind, v], None, or "AssertionError" when an element is no list
SelfImgScale(a) ==
    CASE a.kind = "None" -> [err |-> "", none |-> TRUE, v |-> <<>>]
      [] a.kind = "list_of_list" -> [err |-> "", none |-> FALSE, v |-> a.vs]
      [] a.kind = "list" -> [err |-> "", none |-> FALSE, v |-> <<a.v>>]
      [] OTHER -> [err |-> "AssertionError", none |-> FALSE, v |-> <<>>]

\* JointResize.__init__: the exception it raises, "" when none
JointResizeInit(c) ==
    LET s == SelfImgScale(c.img_scale)
    IN  IF s.err # "" THEN s.err
        ELSE IF c.ratio_range # None
             THEN IF s.none THEN "TypeError"
                  ELSE IF Len(s.v) # 1 THEN "AssertionError" ELSE ""
             ELSE IF c.multiscale_mode \notin {"value", "range"}
                  THEN "AssertionError" ELSE ""

\* random_sample_ratio(img_scale, ratio_range)
random_sample_ratio(img_scale, ratio_range) ==
    IF ratio_range[1] > ratio_range[2]
    THEN { [err |-> "AssertionError", scale |-> <<>>] }
    ELSE { [err |-> "", scale |-> << (img_scale[1] * ratio) \div 10,
                                     (img_scale[2] * ratio) \div 10 >>] :
             ratio \in ratio_range[1]..ratio_range[2] }

Max(a, b) == IF a > b THEN a ELSE b

\* random_sample(img_scales)
random_sample(img_scales) ==
    IF Len(img_scales) # 2
    THEN { [err |-> "AssertionError", scale |-> <<>>] }
    ELSE LET long1 == Max(img_scales[1][1], img_scales[1][2])
             long2 == Max(img_scales[2][1], img_scales[2][2])
             short1 == Min(img_scales[1][1], img_scales[1][2])
             short2 == Min(img_scales[2][1], img_scales[2][2])
         IN  { [err |-> "", scale |-> <<long_edge, short_edge>>] :
                 long_edge \in Min(long1, long2)..Max(long1, long2),
                 short_edge \in Min(short1, short2)..Max(short1, short2) }

\* random_select(img_scales)
random_select(img_scales) ==
    IF Len(img_scales) = 0
    THEN { [err |-> "ValueError", scale |-> <<>>] }
    ELSE { [err |-> "", scale |-> img_scales[scale_idx]] :
             scale_idx \in DOMAIN img_scales }

\* JointResize._random_scale: the outcomes of one call
random_scale(c) ==
    LET s == SelfImgScale(c.img_scale)
    IN  IF c.ratio_range # None
        THEN random_sample_ratio(s.v[1], c.ratio_range[1])
        ELSE IF s.none THEN { [err |-> "TypeError", scale |-> <<>>] }
        ELSE IF Len(s.v) = 1 THEN { [err |-> "", scale |-> s.v[1]] }
        ELSE IF c.multiscale_mode = "range" THEN random_sample(s.v)
        ELSE IF c.multiscale_mode = "value" THEN random_select(s.v)
        ELSE { [err |-> "NotImplementedError", scale |-> <<>>] }

ResizeRecords == { [img_shape |-> sh, scale |-> None] : sh \in TfImgShapes }

\* JointResize(img_scale, multiscale_mode, ratio_range)
JointResizeConstruct ==
    /\ tpc = "init"
    /\ cfg.type = "JointResize"
    /\ raised' = JointResizeInit(cfg)
    /\ tpc' = IF raised' = "" THEN "constructed" ELSE "raised_at_init"
    /\ UNCHANGED <<cfg, results, loc, inferVars, dataVars>>

\* JointResize.__call__ on a record without scale and scale_factor, up to
\* the end of _random_scale
JointResizeRandomScale ==
    /\ tpc = "constructed"
    /\ cfg.type = "JointResize"
    /\ \E r \in ResizeRecords, o \in random_scale(cfg) :
          /\ raised' = o.err
          /\ results' = IF o.err = "" THEN [r EXCEPT !.scale = Some(o.scale)]
                        ELSE r
          /\ tpc' = IF o.err = "" THEN "returned" ELSE "raised_at_call"
    /\ UNCHANGED <<cfg, loc, inferVars, dataVars>>

InitCfg ==
    /\ InferIdle
    /\ DataIdle
    /\ tpc = "init"
    /\ cfg \in PadCfgs \cup ResizeCfgs
    /\ results = NoResults /\ raised = "" /\ loc = NoLoc

NextCfg ==
    \/ PadConstruct
    \/ PadCall
    \/ JointResizeConstruct
    \/ JointResizeRandomScale

SpecCfg == InitCfg /\ [][NextCfg]_vars

----------------------------------------------------------------------------
(* JointRandomFlip.bbox_flip.  Box coordinates are floating-point numbers:
   a coordinate is an integer count of Grid-ths of a pixel and every result
   of an arithmetic operation is rounded to MantissaBits significant bits,
   ties to even, as float32 does with 24 bits. *)

MaxFlipBoxes == 1   \* most rows of a box array handed to bbox_flip
Grid == 4           \* coordinate units per pixel
MantissaBits == 4   \* significant bits of a coordinate

RECURSIVE Pow2(_)
Pow2(n) == IF n = 0 THEN 1 ELSE 2 * Pow2(n - 1)

Abs(n) == IF n < 0 THEN -n ELSE n

\* the spacing of the representable numbers at magnitude n
RECURSIVE UlpFrom(_, _)
UlpFrom(n, u) == IF Abs(n) < u * Pow2(MantissaBits) THEN u ELSE UlpFrom(n, 2 * u)
Ulp(n) == UlpFrom(n, 1)

\* round-to-nearest, ties to even, of the exact result n
RoundFloat(n) ==
    LET u == Ulp(n)
        a == Abs(n)
        q == a \div u
        r == a % u
        m == IF 2 * r > u \/ (2 * r = u /\ q % 2 = 1) THEN q + 1 ELSE q
    IN  IF n < 0 THEN -(m * u) ELSE m * u

\* w - x for a Python int w (pixels) and a float x
FSub(w, x) == RoundFloat(w * Grid - x)

BboxFlipRowKeepsRight(row, img_shape, direction) ==
    LET h == img_shape[1]
        w == img_shape[2]
    IN  [c \in DOMAIN row |->
            CASE (c - 1) % 4 = 0 /\ direction \in {"horizontal", "diagonal"}
                    -> FSub(w, row[c + 2])
              [] (c - 1) % 4 = 1 /\ direction \in {"vertical", "diagonal"}
                    -> FSub(h, row[c + 2])
              [] OTHER -> row[c]]

\* one row of bbox_flip(bboxes, img_shape, direction), direction valid
BboxFlipRow(row, img_shape, direction) ==
    LET h == img_shape[1]
        w == img_shape[2]
    IN  [c \in DOMAIN row |->
            CASE (c - 1) % 4 = 0 /\ direction \in {"horizontal", "diagonal"}
                    -> FSub(w, row[c + 2])
              [] (c - 1) % 4 = 2 /\ direction \in {"horizontal", "diagonal"}
                    -> FSub(w, row[c - 2])
              [] (c - 1) % 4 = 1 /\ direction \in {"vertical", "diagonal"}
                    -> FSub(h, row[c + 2])
              [] (c - 1) % 4 = 3 /\ direction \in {"vertical", "diagonal"}
                    -> FSub(h, row[c - 2])
              [] OTHER -> row[c]]

\* bbox_flip(bboxes, img_shape, direction)
bbox_flip(bboxes, img_shape, direction) ==
    IF direction \in {"horizontal", "vertical", "diagonal"}
    THEN [err |-> "",
          flipped |-> [i \in DOMAIN bboxes |->
                          BboxFlipRow(bboxes[i], img_shape, direction)]]
    ELSE [err |-> "ValueError", flipped |-> bboxes]

\* image shapes (height, width) and box coordinates, in Grid units
FlipShapes == { <<6, 8>>, <<8, 6>> }
FlipCoords == { 0, 1, 8, 16 }
FlipBoxes(img_shape) ==
    { b \in [1..4 -> FlipCoords] :
        /\ b[1] < b[3] /\ b[3] <= img_shape[2] * Grid
        /\ b[2] < b[4] /\ b[4] <= img_shape[1] * Grid }
FlipDirections == { "horizontal", "vertical", "diagonal", "transpose" }

\* bbox_flip(bboxes, img_shape, direction) is applied to the current boxes
BboxFlip ==
    /\ tpc = "call"
    /\ cfg.type = "JointRandomFlip"
    /\ loc.flips < 2
    /\ LET o == bbox_flip(results.bboxes, results.img_shape, cfg.direction)
       IN  /\ raised' = o.err
           /\ results' = [results EXCEPT !.bboxes = o.flipped]
           /\ loc' = [loc EXCEPT !.flips = IF o.err = "" THEN @ + 1 ELSE @]
           /\ tpc' = IF o.err = "" THEN "call" ELSE "raised_at_call"
    /\ UNCHANGED <<cfg, inferVars, dataVars>>

InitFlip ==
    /\ InferIdle
    /\ DataIdle
    /\ tpc = "call"
    /\ \E d \in FlipDirections : cfg = [type |-> "JointRandomFlip", direction |-> d]
    /\ \E sh \in FlipShapes :
          \E bs \in SeqsUpTo(FlipBoxes(sh), MaxFlipBoxes) :
             /\ results = [img_shape |-> sh, bboxes |-> bs]
             /\ loc = [orig |-> bs, flips |-> 0]
    /\ raised = ""

NextFlip == BboxFlip

SpecFlip == InitFlip /\ [][NextFlip]_vars

----------------------------------------------------------------------------
(* MinIoURandomCrop.  Thresholds are in tenths (the mode 1 is 10); boxes and
   patches are in whole pixels; the uniform draws of the crop size and
   position are in CropGrid-ths of a pixel. *)

MaxCropBoxes == 1   \* most rows of gt_bboxes handed to the crop transforms
CropGrid == 2       \* steps per pixel of the uniform draws
CropAttempts == 50  \* for i in range(50)
KeepOriginal == 10  \* the mode 1: return ori img

SampleModeWithoutKeep(min_ious) == min_ious \o <<0>>

\* self.sample_mode = (1, *min_ious, 0)
SampleMode(min_ious) == <<KeepOriginal>> \o min_ious \o <<0>>

\* bbox_overlaps_np(patch, box) >= min_iou, on intersection and union areas
IoUAtLeast(a, b, min_iou) ==
    LET iw == Min(a[3], b[3]) - Max(a[1], b[1])
        ih == Min(a[4], b[4]) - Max(a[2], b[2])
        inter == IF iw > 0 /\ ih > 0 THEN iw * ih ELSE 0
        union == (a[3] - a[1]) * (a[4] - a[2])
                   + (b[3] - b[1]) * (b[4] - b[2]) - inter
    IN  IF union <= 0 THEN min_iou <= 0 ELSE 10 * inter >= min_iou * union

\* is_center_of_bboxes_in_patch for one box
CenterInPatch(box, patch) ==
    /\ box[1] + box[3] > 2 * patch[1]
    /\ box[2] + box[4] > 2 * patch[2]
    /\ box[1] + box[3] < 2 * patch[3]
    /\ box[2] + box[4] < 2 * patch[4]

\* boxes = np.concatenate([results[key] for key in results["bbox_fields"]])
RECURSIVE ConcatFields(_, _)
ConcatFields(r, keys) ==
    IF keys = <<>> THEN <<>>
    ELSE r[Head(keys)] \o ConcatFields(r, Tail(keys))

OverlapsBelowUsesMax(patch, boxes, min_iou) ==
    /\ Len(boxes) > 0
    /\ \A i \in DOMAIN boxes : ~IoUAtLeast(patch, boxes[i], min_iou)

\* len(overlaps) > 0 and overlaps.min() < min_iou
OverlapsBelow(patch, boxes, min_iou) ==
    /\ Len(boxes) > 0
    /\ \E i \in DOMAIN boxes : ~IoUAtLeast(patch, boxes[i], min_iou)

\* the patches one attempt can draw; <<>> stands for an attempt given up at
\* the aspect-ratio test
CropPatches(h, w, min_crop_size) ==
    LET lo_w == (min_crop_size * w * CropGrid + 9) \div 10
        lo_h == (min_crop_size * h * CropGrid + 9) \div 10
        Uniform(low, high) == IF low < high THEN low..(high - 1) ELSE high..low
    IN  UNION { IF 2 * new_h < new_w \/ new_h > 2 * new_w
                THEN { <<>> }
                ELSE { << left \div CropGrid, top \div CropGrid,
                          (left + new_w) \div CropGrid,
                          (top + new_h) \div CropGrid >> :
                        left \in Uniform(w * CropGrid - new_w, CropGrid),
                        top \in Uniform(h * CropGrid - new_h, CropGrid) } :
              new_w \in lo_w..(w * CropGrid - 1),
              new_h \in lo_h..(h * CropGrid - 1) }

\* boxes[mask], clipped to the patch and moved to its origin
ClipToPatch(boxes, patch) ==
    LET kept == SelectSeq(boxes, LAMBDA b : CenterInPatch(b, patch))
    IN  [i \in DOMAIN kept |->
            << Max(kept[i][1], patch[1]) - patch[1],
               Max(kept[i][2], patch[2]) - patch[2],
               Min(kept[i][3], patch[3]) - patch[1],
               Min(kept[i][4], patch[4]) - patch[2] >>]

\* results[label_key][mask]
RECURSIVE MaskLabels(_, _, _)
MaskLabels(labels, boxes, patch) ==
    IF boxes = <<>> THEN <<>>
    ELSE (IF CenterInPatch(Head(boxes), patch) THEN <<Head(labels)>> ELSE <<>>)
            \o MaskLabels(Tail(labels), Tail(boxes), patch)

\* the record after an accepted patch
CropRecord(r, patch) ==
    LET has_boxes == Len(ConcatFields(r, r.bbox_fields)) > 0
        Cropped(key) == IF has_boxes /\ key \in Range(r.bbox_fields)
                        THEN ClipToPatch(r[key], patch) ELSE r[key]
    IN  [r EXCEPT
           !.gt_bboxes = Cropped("gt_bboxes"),
           !.gt_bboxes_ignore = Cropped("gt_bboxes_ignore"),
           !.gt_labels = IF has_boxes /\ "gt_bboxes" \in Range(r.bbox_fields)
                         THEN MaskLabels(r.gt_labels, r.gt_bboxes, patch)
                         ELSE r.gt_labels,
           !.img_shape = << patch[4] - patch[2], patch[3] - patch[1] >>]

\* one pass of the body of "for i in range(50)": "continue" or the record
CropOutcomes(r, min_crop_size, min_iou) ==
    LET boxes == ConcatFields(r, r.bbox_fields)
    IN  { IF patch = <<>> THEN [accept |-> FALSE, patch |-> <<>>, r |-> r]
          ELSE IF patch[3] = patch[1] \/ patch[4] = patch[2]
               THEN [accept |-> FALSE, patch |-> <<>>, r |-> r]
          ELSE IF OverlapsBelow(patch, boxes, min_iou)
               THEN [accept |-> FALSE, patch |-> <<>>, r |-> r]
          ELSE IF Len(boxes) > 0
                    /\ ~\E i \in DOMAIN boxes : CenterInPatch(boxes[i], patch)
               THEN [accept |-> FALSE, patch |-> <<>>, r |-> r]
          ELSE [accept |-> TRUE, patch |-> patch, r |-> CropRecord(r, patch)] :
          patch \in CropPatches(r.img_shape[1], r.img_shape[2], min_crop_size) }

CropShapes == { <<4, 4>> }
CropBoxes == { <<0, 0, 4, 4>>, <<1, 1, 3, 3>>, <<2, 0, 4, 2>> }

\* records after the loading stage, gt_labels paired with gt_bboxes
CropRecords(maxBoxes) ==
    { [img_shape |-> sh, bbox_fields |-> f, gt_bboxes |-> bs,
       gt_bboxes_ignore |-> ig, gt_labels |-> [i \in DOMAIN bs |-> i]] :
        sh \in CropShapes,
        f \in { <<"gt_bboxes">>, <<"gt_bboxes", "gt_bboxes_ignore">> },
        bs \in SeqsUpTo(CropBoxes, maxBoxes),
        ig \in { <<>>, << <<1, 1, 3, 3>> >> } }

\* __init__ does not set self.mode: the attribute is absent
NoMode == -1

MinIoUCfgs ==
    { [type |-> "MinIoURandomCrop", min_ious |-> <<1, 3, 5, 7, 9>>,
       min_crop_size |-> 3, mode |-> NoMode] }

\* self.mode = mode
SetSelfMode(self, mode) == [self EXCEPT !.mode = mode]

\* mode = np.random.choice(self.sample_mode); if mode == 1: return results
DrawKeepOriginal ==
    /\ tpc = "draw_mode"
    /\ cfg.type = "MinIoURandomCrop"
    /\ \E m \in DOMAIN SampleMode(cfg.min_ious) :
          /\ SampleMode(cfg.min_ious)[m] = KeepOriginal
          /\ loc' = [loc EXCEPT !.mode = KeepOriginal, !.i = 0,
                                !.outcomes = {}]
          /\ cfg' = SetSelfMode(cfg, KeepOriginal)
    /\ tpc' = "returned"
    /\ UNCHANGED <<results, raised, inferVars, dataVars>>

\* mode = np.random.choice(self.sample_mode); min_iou = mode.  What one
\* attempt can do depends on the record and on min_iou only: it is worked
\* out here, once for the 50 attempts.
DrawMinIoU ==
    /\ tpc = "draw_mode"
    /\ cfg.type = "MinIoURandomCrop"
    /\ \E m \in DOMAIN SampleMode(cfg.min_ious) :
          /\ SampleMode(cfg.min_ious)[m] # KeepOriginal
          /\ loc' = [loc EXCEPT
                        !.mode = SampleMode(cfg.min_ious)[m],
                        !.i = 0,
                        !.outcomes = CropOutcomes(results, cfg.min_crop_size,
                                                  SampleMode(cfg.min_ious)[m])]
          /\ cfg' = SetSelfMode(cfg, SampleMode(cfg.min_ious)[m])
    /\ tpc' = "attempt"
    /\ UNCHANGED <<results, raised, inferVars, dataVars>>

\* one pass of "for i in range(50)"; the counter i ends with the call
CropAttempt ==
    /\ tpc = "attempt"
    /\ cfg.type = "MinIoURandomCrop"
    /\ loc.i < CropAttempts
    /\ \E o \in loc.outcomes :
          IF o.accept
          THEN /\ results' = o.r
               /\ loc' = [loc EXCEPT !.patch = o.patch, !.i = 0,
                                     !.outcomes = {}]
               /\ tpc' = "returned"
          ELSE /\ results' = results
               /\ loc' = [loc EXCEPT !.i = @ + 1]
               /\ tpc' = tpc
    /\ UNCHANGED <<cfg, raised, inferVars, dataVars>>

\* the for loop ends without a crop: back to "while True"
AttemptsExhausted ==
    /\ tpc = "attempt"
    /\ cfg.type = "MinIoURandomCrop"
    /\ loc.i = CropAttempts
    /\ tpc' = "draw_mode"
    /\ UNCHANGED <<cfg, results, raised, loc, inferVars, dataVars>>

InitMinIoU ==
    /\ InferIdle
    /\ DataIdle
    /\ tpc = "draw_mode"
    /\ cfg \in MinIoUCfgs
    /\ \E r \in CropRecords(MaxCropBoxes) :
          /\ results = r
          /\ loc = [input |-> r, mode |-> -1, i |-> 0, patch |-> <<>>,
                    outcomes |-> {}, stage |-> cfg]
    /\ raised = ""

NextMinIoU ==
    \/ DrawKeepOriginal
    \/ DrawMinIoU
    \/ CropAttempt
    \/ AttemptsExhausted

SpecMinIoU == InitMinIoU /\ [][NextMinIoU]_vars

\* the loop keeps running, and the random choice of the mode does not leave
\* out the mode 1 for ever
SpecMinIoUFair ==
    /\ SpecMinIoU
    /\ WF_vars(NextMinIoU)
    /\ SF_vars(DrawKeepOriginal)

----------------------------------------------------------------------------
(* RandomCenterCropPad.  Sizes and boxes are in whole pixels, ratios in
   tenths. *)

\* the least e with 2^e >= n, for n >= 1: ceil(log2(n))
RECURSIVE CeilLog2(_)
CeilLog2(n) == IF n <= 1 THEN 0 ELSE 1 + CeilLog2((n + 1) \div 2)

\* _get_border(border, size)
get_border(border, size) ==
    LET ceil_k == (2 * border + size - 1) \div size
        whole == IF (2 * border) % size = 0 THEN 1 ELSE 0
    IN  border \div Pow2(CeilLog2(ceil_k) + whole)

\* _filter_boxes(patch, boxes) for one box
filter_boxes(patch, box) ==
    /\ box[1] + box[3] > 2 * patch[1]
    /\ box[2] + box[4] > 2 * patch[2]
    /\ box[1] + box[3] < 2 * patch[3]
    /\ box[2] + box[4] < 2 * patch[4]

\* _crop_image_and_paste(image, center, size): shape of the cropped image,
\* border and patch
crop_image_and_paste(img_shape, center, size) ==
    LET center_y == center[1]
        center_x == center[2]
        target_h == size[1]
        target_w == size[2]
        x0 == Max(0, center_x - target_w \div 2)
        x1 == Min(center_x + target_w \div 2, img_shape[2])
        y0 == Max(0, center_y - target_h \div 2)
        y1 == Min(center_y + target_h \div 2, img_shape[1])
        left == center_x - x0
        right == x1 - center_x
        top == center_y - y0
        bottom == y1 - center_y
    IN  [shape |-> <<target_h, target_w>>,
         border |-> << target_h \div 2 - top, target_h \div 2 + bottom,
                       target_w \div 2 - left, target_w \div 2 + right >>,
         patch |-> <<x0, y0, x1, y1>>]

Clip(x, lo, hi) == Max(lo, Min(x, hi))

\* the rows of one bbox field after the crop: results[key][mask], moved,
\* clipped to the new image, rows without area dropped
CenterCropBoxes(boxes, patch, center, size) ==
    LET dx == size[2] \div 2 - center[2]
        dy == size[1] \div 2 - center[1]
        masked == SelectSeq(boxes, LAMBDA b : filter_boxes(patch, b))
        moved == [i \in DOMAIN masked |->
                    << Clip(masked[i][1] + dx, 0, size[2]),
                       Clip(masked[i][2] + dy, 0, size[1]),
                       Clip(masked[i][3] + dx, 0, size[2]),
                       Clip(masked[i][4] + dy, 0, size[1]) >>]
    IN  SelectSeq(moved, LAMBDA b : b[3] > b[1] /\ b[4] > b[2])

\* labels[mask][keep]
RECURSIVE CenterCropLabels(_, _, _, _, _)
CenterCropLabels(labels, boxes, patch, center, size) ==
    IF boxes = <<>> THEN <<>>
    ELSE (IF CenterCropBoxes(<<Head(boxes)>>, patch, center, size) # <<>>
          THEN <<Head(labels)>> ELSE <<>>)
            \o CenterCropLabels(Tail(labels), Tail(boxes), patch, center, size)

\* if not mask.any() and len(boxes) > 0: continue
CenterCropRetries(patch, boxes) ==
    /\ ~\E i \in DOMAIN boxes : filter_boxes(patch, boxes[i])
    /\ Len(boxes) > 0

\* one pass of "for i in range(50)" of _train_aug
TrainOutcomes(r, c, scale) ==
    LET h == r.img_shape[1]
        w == r.img_shape[2]
        size == << (c.crop_size[1] * scale) \div 10,
                   (c.crop_size[2] * scale) \div 10 >>
        h_border == get_border(c.border, h)
        w_border == get_border(c.border, w)
        Cropped(key, center, patch) ==
            IF key \in Range(r.bbox_fields)
            THEN CenterCropBoxes(r[key], patch, center, size) ELSE r[key]
    IN  { LET center == <<center_y, center_x>>
              patch == crop_image_and_paste(r.img_shape, center, size).patch
          IN  IF CenterCropRetries(patch, r.gt_bboxes)
              THEN [accept |-> FALSE, r |-> r]
              ELSE [accept |-> TRUE,
                    r |-> [r EXCEPT
                       !.img = patch,
                       !.img_shape = size,
                       !.pad_shape = size,
                       !.gt_bboxes = Cropped("gt_bboxes", center, patch),
                       !.gt_bboxes_ignore =
                           Cropped("gt_bboxes_ignore", center, patch),
                       !.gt_labels =
                           IF "gt_bboxes" \in Range(r.bbox_fields)
                           THEN CenterCropLabels(r.gt_labels, r.gt_bboxes,
                                                 patch, center, size)
                           ELSE r.gt_labels]] :
          center_x \in w_border..(w - w_border - 1),
          center_y \in h_border..(h - h_border - 1) }

RECURSIVE BitOr(_, _)
BitOr(a, b) ==
    IF a = 0 THEN b
    ELSE IF b = 0 THEN a
    ELSE Max(a % 2, b % 2) + 2 * BitOr(a \div 2, b \div 2)

TestTargetFloors(n, test_pad_mode) ==
    IF test_pad_mode[1] = "logical_or" THEN Max(n, test_pad_mode[2])
    ELSE (n \div test_pad_mode[2]) * test_pad_mode[2]

\* target_h, target_w of _test_aug
TestTarget(n, test_pad_mode) ==
    IF test_pad_mode[1] = "logical_or" THEN BitOr(n, test_pad_mode[2])
    ELSE ((n + test_pad_mode[2] - 1) \div test_pad_mode[2]) * test_pad_mode[2]

\* _test_aug(results)
test_aug(r, c) ==
    LET h == r.img_shape[1]
        w == r.img_shape[2]
        o == crop_image_and_paste(
                 r.img_shape, << h \div 2, w \div 2 >>,
                 << TestTarget(h, c.test_pad_mode),
                    TestTarget(w, c.test_pad_mode) >>)
    IN  [r EXCEPT !.img = o.patch, !.pad_shape = o.shape, !.border = o.border]

CenterCropShapes == { <<6, 6>>, <<5, 8>> }
CenterCropGtBoxes == { <<0, 0, 2, 2>>, <<2, 2, 5, 4>>, <<3, 1, 3, 4>> }
TestPadModes ==
    { <<m, v>> : m \in {"logical_or", "size_divisor"}, v \in {1, 3, 4, 5} }

\* results["img"] is the window (x0, y0, x1, y1) of the input image that the
\* image of the record shows
CenterCropRecords(maxBoxes) ==
    { [img |-> <<0, 0, sh[2], sh[1]>>,
       img_shape |-> sh, pad_shape |-> None, border |-> None,
       bbox_fields |-> f, gt_bboxes |-> bs, gt_bboxes_ignore |-> ig,
       gt_labels |-> [i \in DOMAIN bs |-> i]] :
        sh \in CenterCropShapes,
        f \in { <<"gt_bboxes">>, <<"gt_bboxes", "gt_bboxes_ignore">> },
        bs \in SeqsUpTo(CenterCropGtBoxes, maxBoxes),
        ig \in { <<>>, << <<2, 2, 5, 4>> >> } }

CenterCropCfgs ==
    { [type |-> "RandomCenterCropPad", test_mode |-> FALSE,
       crop_size |-> <<4, 4>>, ratios |-> <<5, 10, 15>>, border |-> 2,
       test_pad_mode |-> None] }
    \cup { [type |-> "RandomCenterCropPad", test_mode |-> TRUE,
            crop_size |-> None, ratios |-> None, border |-> None,
            test_pad_mode |-> m] : m \in TestPadModes }

\* _train_aug: scale = np.random.choice(self.ratios), at the head of "while
\* True".  What one attempt can do depends on the record and on the scale
\* only: it is worked out here, once for the 50 attempts.
DrawScale ==
    /\ tpc = "draw_scale"
    /\ cfg.type = "RandomCenterCropPad" /\ ~cfg.test_mode
    /\ \E k \in DOMAIN cfg.ratios :
          loc' = [loc EXCEPT !.scale = cfg.ratios[k], !.i = 0,
                             !.outcomes = TrainOutcomes(results, cfg,
                                                        cfg.ratios[k])]
    /\ tpc' = "attempt"
    /\ UNCHANGED <<cfg, results, raised, inferVars, dataVars>>

\* _train_aug: one pass of "for i in range(50)"; the counter i ends with
\* the call
CenterCropAttempt ==
    /\ tpc = "attempt"
    /\ cfg.type = "RandomCenterCropPad"
    /\ loc.i < CropAttempts
    /\ \E o \in loc.outcomes :
          IF o.accept
          THEN /\ results' = o.r
               /\ loc' = [loc EXCEPT !.i = 0, !.outcomes = {}]
               /\ tpc' = "returned"
          ELSE /\ results' = results
               /\ loc' = [loc EXCEPT !.i = @ + 1, !.retried = TRUE]
               /\ tpc' = tpc
    /\ UNCHANGED <<cfg, raised, inferVars, dataVars>>

\* _train_aug: the for loop ends without a crop: back to "while True"
CenterCropExhausted ==
    /\ tpc = "attempt"
    /\ cfg.type = "RandomCenterCropPad"
    /\ loc.i = CropAttempts
    /\ tpc' = "draw_scale"
    /\ UNCHANGED <<cfg, results, raised, loc, inferVars, dataVars>>

\* __call__ in test mode: _test_aug(results)
TestAug ==
    /\ tpc = "call"
    /\ cfg.type = "RandomCenterCropPad" /\ cfg.test_mode
    /\ results' = test_aug(results, cfg)
    /\ tpc' = "returned"
    /\ UNCHANGED <<cfg, raised, loc, inferVars, dataVars>>

InitCenterCrop ==
    /\ InferIdle
    /\ DataIdle
    /\ cfg \in CenterCropCfgs
    /\ tpc = IF cfg.test_mode THEN "call" ELSE "draw_scale"
    /\ \E r \in CenterCropRecords(MaxCropBoxes) :
          /\ results = r
          /\ loc = [input |-> r, scale |-> 0, i |-> 0, outcomes |-> {},
                    retried |-> FALSE]
    /\ raised = ""

NextCenterCrop ==
    \/ DrawScale
    \/ CenterCropAttempt
    \/ CenterCropExhausted
    \/ TestAug

SpecCenterCrop == InitCenterCrop /\ [][NextCenterCrop]_vars

----------------------------------------------------------------------------
(* MosaicPipeline.__call__ after the individual pipeline has run on the
   four tiles: canvas, placement, translation of the boxes, concatenation *)

MaxMosaicBoxes == 1     \* most rows of gt_bboxes of one tile

\* cxy = max(shapes[0][0], shapes[1][0], shapes[0][1], shapes[2][1])
mosaic_cxy(shapes) ==
    Max(Max(shapes[1][1], shapes[2][1]), Max(shapes[1][2], shapes[3][2]))

\* x1, y1, x2, y2 of tile i (1 top left, 2 top right, 3 bottom left,
\* 4 bottom right)
mosaic_place(i, h, w, cxy) ==
    CASE i = 1 -> << cxy - w, cxy - h, cxy, cxy >>
      [] i = 2 -> << cxy, cxy - h, cxy + w, cxy >>
      [] i = 3 -> << cxy - w, cxy, cxy, cxy + h >>
      [] OTHER -> << cxy, cxy, cxy + w, cxy + h >>

\* canvas[key][y1:y2, x1:x2] = results[key] needs the slice to have the
\* shape of the tile: the rectangle must lie inside the canvas
SliceFits(place, canvas_shape) ==
    /\ 0 <= place[1] /\ place[3] <= canvas_shape[2]
    /\ 0 <= place[2] /\ place[4] <= canvas_shape[1]

TranslateByFirstTile(bboxes, places, i) ==
    [k \in DOMAIN bboxes |->
        << bboxes[k][1] + places[1][1], bboxes[k][2] + places[1][2],
           bboxes[k][3] + places[1][1], bboxes[k][4] + places[1][2] >>]

\* bboxes[:, 0::2] + x1 and bboxes[:, 1::2] + y1 for the rows of tile i
Translate(bboxes, places, i) ==
    [k \in DOMAIN bboxes |->
        << bboxes[k][1] + places[i][1], bboxes[k][2] + places[i][2],
           bboxes[k][3] + places[i][1], bboxes[k][4] + places[i][2] >>]

\* np.concatenate([r[key] for r in mosaic_results], axis=0), from tile i on
RECURSIVE ConcatTiles(_, _, _)
ConcatTiles(rs, key, i) ==
    IF i > Len(rs) THEN <<>> ELSE rs[i][key] \o ConcatTiles(rs, key, i + 1)

\* MosaicPipeline.__call__ from "shapes = ..." on
mosaic_canvas(rs) ==
    LET shapes == [i \in DOMAIN rs |-> rs[i].pad_shape]
        cxy == mosaic_cxy(shapes)
        canvas_shape == << cxy * 2, cxy * 2 >>
        places == [i \in DOMAIN rs |->
                      mosaic_place(i, shapes[i][1], shapes[i][2], cxy)]
        moved == [i \in DOMAIN rs |->
                    [rs[i] EXCEPT
                       !.gt_bboxes =
                          IF "gt_bboxes" \in Range(rs[i].bbox_fields)
                          THEN Translate(@, places, i) ELSE @,
                       !.gt_bboxes_ignore =
                          IF "gt_bboxes_ignore" \in Range(rs[i].bbox_fields)
                          THEN Translate(@, places, i) ELSE @]]
        fields == rs[1].bbox_fields
    IN  [err |-> IF \A i \in DOMAIN rs : SliceFits(places[i], canvas_shape)
                 THEN "" ELSE "ValueError",
         canvas_shape |-> canvas_shape,
         places |-> places,
         out |-> [img_shape |-> canvas_shape,
                  ori_shape |-> canvas_shape,
                  bbox_fields |-> fields,
                  gt_bboxes |-> IF "gt_bboxes" \in Range(fields)
                                THEN ConcatTiles(moved, "gt_bboxes", 1)
                                ELSE rs[1].gt_bboxes,
                  gt_bboxes_ignore |->
                     IF "gt_bboxes_ignore" \in Range(fields)
                     THEN ConcatTiles(moved, "gt_bboxes_ignore", 1)
                     ELSE rs[1].gt_bboxes_ignore,
                  gt_labels |-> ConcatTiles(moved, "gt_labels", 1),
                  flip |-> FALSE]]

TileShapes == { <<2, 3>>, <<2, 4>>, <<3, 3>> }
TileBoxes == { <<1, 0, 2, 2>> }
TileIgnores ==
    { [i \in 1..4 |-> <<>>],
      [i \in 1..4 |-> IF i % 2 = 1 THEN << <<0, 1, 2, 2>> >> ELSE <<>>] }

\* the results of the individual pipeline on the four tiles; the label of a
\* box tells its tile and its row
MosaicResults(maxBoxes) ==
    { [i \in 1..4 |->
          [pad_shape |-> sh[i], bbox_fields |-> f, gt_bboxes |-> bs[i],
           gt_bboxes_ignore |-> ig[i],
           gt_labels |-> [k \in DOMAIN bs[i] |-> 10 * i + k]]] :
        sh \in [1..4 -> TileShapes],
        f \in { <<"gt_bboxes">>, <<"gt_bboxes", "gt_bboxes_ignore">> },
        bs \in [1..4 -> SeqsUpTo(TileBoxes, maxBoxes)],
        ig \in TileIgnores }

\* the rest of MosaicPipeline.__call__, once the four tiles are there
MosaicCompose ==
    /\ tpc = "call"
    /\ cfg.type = "MosaicPipeline"
    /\ LET o == mosaic_canvas(loc.mosaic_results)
       IN  /\ raised' = o.err
           /\ loc' = [loc EXCEPT !.canvas_shape = o.canvas_shape,
                                 !.places = o.places]
           /\ results' = IF o.err = "" THEN o.out ELSE results
           /\ tpc' = IF o.err = "" THEN "returned" ELSE "raised_at_call"
    /\ UNCHANGED <<cfg, inferVars, dataVars>>

InitMosaic ==
    /\ InferIdle
    /\ DataIdle
    /\ tpc = "call"
    /\ cfg = [type |-> "MosaicPipeline"]
    /\ results = NoResults
    /\ \E rs \in MosaicResults(MaxMosaicBoxes) :
          loc = [mosaic_results |-> rs, canvas_shape |-> <<>>, places |-> <<>>]
    /\ raised = ""

NextMosaic == MosaicCompose

SpecMosaic == InitMosaic /\ [][NextMosaic]_vars

----------------------------------------------------------------------------
(* LetterResize, and the stage objects of LetterResize and MinIoURandomCrop
   across a call *)

LetterStride == 64      \* np.mod(dw, 64)

\* round(a / b) of Python: to the nearest integer, ties to even (a, b > 0)
RoundHalfEven(a, b) ==
    LET q == a \div b
        r == a % b
    IN  IF 2 * r > b \/ (2 * r = b /\ q % 2 = 1) THEN q + 1 ELSE q

\* self.image_size_hw after "if isinstance(self.image_size_hw, int)"
LetterSizeHW(size) ==
    IF size.kind = "int" THEN [kind |-> "tuple", hw |-> <<size.n, size.n>>]
    ELSE size

\* LetterResize.__call__ for the field "img": the stage and the record after it
letter_resize(self, r) ==
    LET size == LetterSizeHW(self.image_size_hw)
        H == size.hw[1]
        W == size.hw[2]
        h == r.img_shape[1]
        w == r.img_shape[2]
        by_h == H * w <= W * h
        num0 == IF by_h THEN H ELSE W
        den0 == IF by_h THEN h ELSE w
        shrink == ~self.scaleup /\ num0 > den0
        num == IF shrink THEN 1 ELSE num0
        den == IF shrink THEN 1 ELSE den0
        unpad_w == RoundHalfEven(w * num, den)
        unpad_h == RoundHalfEven(h * num, den)
        stretch == ~self.auto /\ self.scaleFill
        new_w == IF stretch THEN W ELSE unpad_w
        new_h == IF stretch THEN H ELSE unpad_h
        dw == IF self.auto THEN (W - unpad_w) % LetterStride
              ELSE IF self.scaleFill THEN 0 ELSE W - unpad_w
        dh == IF self.auto THEN (H - unpad_h) % LetterStride
              ELSE IF self.scaleFill THEN 0 ELSE H - unpad_h
        top == dh \div 2
        left == dw \div 2
    IN  [self |-> [self EXCEPT !.image_size_hw = size],
         r |-> [r EXCEPT !.img_shape = <<new_h, new_w>>,
                         !.pad_shape = <<new_h + dh, new_w + dw>>,
                         !.pad_param = << top, dh - top, left, dw - left >>]]

LetterCfgs ==
    { [type |-> "LetterResize", image_size_hw |-> sz, auto |-> a,
       scaleFill |-> f, scaleup |-> u] :
        sz \in { [kind |-> "int", n |-> 8], [kind |-> "tuple", hw |-> <<8, 6>>] },
        a \in BOOLEAN, f \in BOOLEAN, u \in BOOLEAN }

LetterRecords ==
    { [img_shape |-> sh, pad_shape |-> None, pad_param |-> None] :
        sh \in { <<3, 5>>, <<4, 4>>, <<12, 9>> } }

\* LetterResize.__call__(results)
LetterResizeCall ==
    /\ tpc = "call"
    /\ cfg.type = "LetterResize"
    /\ LET o == letter_resize(cfg, results)
       IN  cfg' = o.self /\ results' = o.r
    /\ tpc' = "returned"
    /\ UNCHANGED <<raised, loc, inferVars, dataVars>>

InitStage ==
    \/ InitMinIoU
    \/ /\ InferIdle
       /\ DataIdle
       /\ tpc = "call"
       /\ cfg \in LetterCfgs
       /\ results \in LetterRecords
       /\ loc = [stage |-> cfg]
       /\ raised = ""

NextStage ==
    \/ NextMinIoU
    \/ LetterResizeCall

SpecStage == InitStage /\ [][NextStage]_vars

----------------------------------------------------------------------------
(* JointResize.__call__: the resizing of the image, box, mask and
   segmentation fields.  An image, a mask set and a segmentation map are
   modelled by their geometry <<h, w>>; a box coordinate after resizing is the
   exact quotient <<numerator, denominator>>. *)

\* rescale_size((w, h), scale) of imrescale with a tuple scale: the largest
\* size within the long and short edges of scale, each side int(x * f + 0.5)
rescale_size(shape, scale) ==
    LET h == shape[1]
        w == shape[2]
        max_long_edge == Max(scale[1], scale[2])
        max_short_edge == Min(scale[1], scale[2])
        long == Max(h, w)
        short == Min(h, w)
        by_long == max_long_edge * short <= max_short_edge * long
        num == IF by_long THEN max_long_edge ELSE max_short_edge
        den == IF by_long THEN long ELSE short
    IN  << (2 * h * num + den) \div (2 * den),
           (2 * w * num + den) \div (2 * den) >>

\* the geometry of imrescale(x, scale) when keep_ratio, of imresize(x, scale)
\* otherwise; scale is (w, h)
resized_shape(shape, scale, keep_ratio) ==
    IF keep_ratio THEN rescale_size(shape, scale)
    ELSE <<scale[2], scale[1]>>

\* np.clip(x, 0, hi) of a quotient x
ClipQuot(x, hi) ==
    IF x[1] < 0 THEN <<0, x[2]>>
    ELSE IF x[1] > hi * x[2] THEN <<hi * x[2], x[2]>>
    ELSE x

\* JointResize._resize_img for the field "img"
resize_img(self, r) ==
    LET new == resized_shape(r.img, r.scale[1], self.keep_ratio)
    IN  [r EXCEPT !.img = new,
                  !.img_shape = new,
                  !.pad_shape = new,
                  !.scale_factor = << <<new[2], r.img[2]>>, <<new[1], r.img[1]>> >>,
                  !.keep_ratio = Some(self.keep_ratio)]

\* one row of results[key] * results["scale_factor"], clipped to img_shape
ResizeBox(b, r) ==
    LET w_scale == r.scale_factor[1]
        h_scale == r.scale_factor[2]
    IN  << ClipQuot(<<b[1] * w_scale[1], w_scale[2]>>, r.img_shape[2]),
           ClipQuot(<<b[2] * h_scale[1], h_scale[2]>>, r.img_shape[1]),
           ClipQuot(<<b[3] * w_scale[1], w_scale[2]>>, r.img_shape[2]),
           ClipQuot(<<b[4] * h_scale[1], h_scale[2]>>, r.img_shape[1]) >>

RECURSIVE resize_fields(_, _, _, _)
\* "for key in fields: step(r, key)" from the i-th key on
resize_fields(r, fields, i, kind) ==
    IF i > Len(fields) THEN r
    ELSE LET key == fields[i]
             next ==
                 CASE kind = "bbox" ->
                        [r EXCEPT ![key] = [j \in DOMAIN r[key] |->
                                              ResizeBox(r[key][j], r)]]
                   [] kind = "mask" ->
                        IF r[key] = None THEN r
                        ELSE IF r.keep_ratio[1]
                        THEN [r EXCEPT ![key] =
                                rescale_size(r[key], r.scale[1])]
                        ELSE [r EXCEPT ![key] = r.img_shape]
                   [] OTHER ->
                        [r EXCEPT !.gt_semantic_seg =
                            resized_shape(r[key], r.scale[1], r.keep_ratio[1])]
         IN  resize_fields(next, fields, i + 1, kind)

\* JointResize._resize_bboxes
resize_bboxes(r) == resize_fields(r, r.bbox_fields, 1, "bbox")

\* JointResize._resize_masks
resize_masks(r) == resize_fields(r, r.mask_fields, 1, "mask")

\* JointResize._resize_seg
resize_seg(r) == resize_fields(r, r.seg_fields, 1, "seg")

\* the stages of JointResize that a call resizes with: a single img_scale
ResizeCallCfgs ==
    { [type |-> "JointResize", img_scale |-> [kind |-> "list", v |-> sc],
       multiscale_mode |-> "range", ratio_range |-> None, keep_ratio |-> k] :
        sc \in ScaleSet, k \in BOOLEAN }

ResizeBoxes == { <<>>, << <<1, 0, 3, 2>> >>, << <<0, 1, 5, 3>> >> }

SegFieldLists ==
    { <<>>, <<"gt_semantic_seg">>, <<"gt_seg_aux">>,
      <<"gt_semantic_seg", "gt_seg_aux">> }

\* records of the loading stages: every map has the geometry of the image;
\* a key that is absent holds None
ResizeCallRecords ==
    { [img |-> sh, img_shape |-> sh, pad_shape |-> None,
       scale_factor |-> None, keep_ratio |-> None, scale |-> sc,
       bbox_fields |-> <<"gt_bboxes">>, gt_bboxes |-> bs,
       mask_fields |-> mf,
       gt_masks |-> IF mf = <<>> THEN None ELSE sh,
       seg_fields |-> sf,
       gt_semantic_seg |-> IF \E i \in DOMAIN sf : sf[i] = "gt_semantic_seg"
                           THEN sh ELSE None,
       gt_seg_aux |-> IF \E i \in DOMAIN sf : sf[i] = "gt_seg_aux"
                      THEN sh ELSE None] :
        sh \in { <<3, 5>>, <<6, 7>> },
        sc \in { None, Some(<<8, 4>>) },
        bs \in ResizeBoxes,
        mf \in { <<>>, <<"gt_masks">> },
        sf \in SegFieldLists }

\* JointResize.__call__(results); scale_factor is not a key of the record
JointResizeCall ==
    /\ tpc = "call"
    /\ cfg.type = "JointResize"
    /\ \E o \in IF results.scale = None THEN random_scale(cfg)
                ELSE { [err |-> "", scale |-> results.scale[1]] } :
          /\ raised' = o.err
          /\ results' =
                IF o.err # "" THEN results
                ELSE resize_seg(resize_masks(resize_bboxes(resize_img(cfg,
                        [results EXCEPT !.scale = Some(o.scale)]))))
          /\ tpc' = IF o.err = "" THEN "returned" ELSE "raised_at_call"
    /\ UNCHANGED <<cfg, loc, inferVars, dataVars>>

InitResize ==
    /\ InferIdle
    /\ DataIdle
    /\ tpc = "call"
    /\ cfg \in ResizeCallCfgs
    /\ results \in ResizeCallRecords
    /\ loc = [input |-> results]
    /\ raised = ""

NextResize == JointResizeCall

SpecResize == InitResize /\ [][NextResize]_vars

----------------------------------------------------------------------------
(* BBoxTestMixin.simple_test_bboxes and MaskTestMixin.simple_test_mask.
   A tensor is the sequence of its rows.  The heads are functions of their
   arguments: a row that a head computes for a roi is tagged with the roi,
   and what get_bboxes and get_seg_masks return records the arguments they
   were called with. *)

MaxBatchImgs == 2      \* most images of a batch
MaxProposals == 2      \* most proposals, and most detections, of an image

\* bbox2roi(bbox_list): the boxes of all images, each with its batch index
RECURSIVE bbox2roi(_, _)
bbox2roi(bbox_list, img_id) ==
    IF img_id > Len(bbox_list) THEN <<>>
    ELSE [j \in DOMAIN bbox_list[img_id] |->
            [batch_ind |-> img_id - 1, box |-> bbox_list[img_id][j]]]
         \o bbox2roi(bbox_list, img_id + 1)

\* self._bbox_forward(x, rois): one score row and one delta row per roi
bbox_forward(rois, with_reg) ==
    [cls_score |-> [j \in DOMAIN rois |-> [head |-> "cls", row |-> j,
                                           roi |-> rois[j]]],
     bbox_pred |-> IF with_reg
                   THEN Some([j \in DOMAIN rois |-> [head |-> "reg", row |-> j,
                                                     roi |-> rois[j]]])
                   ELSE None]

\* num_proposals_per_img = tuple(len(p) for p in proposals)
NumPerImgOfFirst(proposals) == [i \in DOMAIN proposals |-> Len(proposals[1])]
num_proposals_per_img(proposals) == [i \in DOMAIN proposals |-> Len(proposals[i])]

RECURSIVE SumSeq(_)
SumSeq(ns) == IF ns = <<>> THEN 0 ELSE Head(ns) + SumSeq(Tail(ns))

\* tensor.split(split_sizes, 0): consecutive chunks of the given sizes;
\* the sizes must sum to the number of rows
RECURSIVE SplitChunks(_, _)
SplitChunks(t, sizes) ==
    IF sizes = <<>> THEN <<>>
    ELSE << SubSeq(t, 1, Head(sizes)) >>
         \o SplitChunks(SubSeq(t, Head(sizes) + 1, Len(t)), Tail(sizes))

split(t, sizes) ==
    IF SumSeq(sizes) # Len(t) THEN [err |-> "RuntimeError", chunks |-> <<>>]
    ELSE [err |-> "", chunks |-> SplitChunks(t, sizes)]

\* self.bbox_head.get_bboxes(rois, cls_score, bbox_pred, img_shape,
\*                           scale_factor, rescale=rescale, cfg=rcnn_test_cfg)
get_bboxes(rois, cls_score, bbox_pred, img_shape, scale_factor, rescale) ==
    LET args == [rois |-> rois, cls_score |-> cls_score,
                 bbox_pred |-> bbox_pred, img_shape |-> img_shape,
                 scale_factor |-> scale_factor, rescale |-> rescale]
    IN  [det_bbox |-> [of |-> "bboxes", args |-> args],
         det_label |-> [of |-> "labels", args |-> args]]

\* simple_test_bboxes(x, img_metas, proposals, rcnn_test_cfg, rescale)
simple_test_bboxes(img_metas, proposals, with_reg, rescale) ==
    LET rois == bbox2roi(proposals, 1)
        bbox_results == bbox_forward(rois, with_reg)
        n == num_proposals_per_img(proposals)
        rois_split == split(rois, n)
        cls_split == split(bbox_results.cls_score, n)
        pred_split == IF bbox_results.bbox_pred # None
                      THEN split(bbox_results.bbox_pred[1], n)
                      ELSE [err |-> "", chunks |-> [i \in DOMAIN proposals |-> None]]
        err == IF rois_split.err # "" THEN rois_split.err
               ELSE IF cls_split.err # "" THEN cls_split.err
               ELSE pred_split.err
        det(i) == get_bboxes(rois_split.chunks[i], cls_split.chunks[i],
                             IF bbox_results.bbox_pred # None
                             THEN Some(pred_split.chunks[i]) ELSE None,
                             img_metas[i].img_shape, img_metas[i].scale_factor,
                             rescale)
    IN  [err |-> err,
         rois |-> rois,
         bbox_results |-> bbox_results,
         det_bboxes |-> IF err # "" THEN <<>>
                        ELSE [i \in DOMAIN proposals |-> det(i).det_bbox],
         det_labels |-> IF err # "" THEN <<>>
                        ELSE [i \in DOMAIN proposals |-> det(i).det_label]]

RoiBoxes == { <<0, 0, 2, 2>>, <<1, 1, 3, 4>> }

\* the arrays of at most n boxes
BoxLists(n) == UNION { [1..k -> RoiBoxes] : k \in 0..n }

ImgMetas ==
    { [img_shape |-> <<4, 4>>, ori_shape |-> <<8, 8>>, scale_factor |-> 2],
      [img_shape |-> <<6, 7>>, ori_shape |-> <<6, 7>>, scale_factor |-> 1] }

\* BBoxTestMixin.simple_test_bboxes
SimpleTestBboxes ==
    /\ tpc = "call"
    /\ cfg.type = "simple_test_bboxes"
    /\ LET o == simple_test_bboxes(loc.img_metas, loc.proposals,
                                   cfg.with_reg, cfg.rescale)
       IN  /\ raised' = o.err
           /\ results' = [det_bboxes |-> o.det_bboxes,
                          det_labels |-> o.det_labels]
           /\ loc' = [loc EXCEPT !.rois = o.rois,
                                 !.bbox_results = o.bbox_results]
           /\ tpc' = IF o.err = "" THEN "returned" ELSE "raised_at_call"
    /\ UNCHANGED <<cfg, inferVars, dataVars>>

InitBboxTest ==
    /\ InferIdle
    /\ DataIdle
    /\ tpc = "call"
    /\ cfg \in { [type |-> "simple_test_bboxes", with_reg |-> g, rescale |-> s] :
                    g \in BOOLEAN, s \in BOOLEAN }
    /\ \E k \in 1..MaxBatchImgs :
          \E ps \in [1..k -> BoxLists(MaxProposals)], ms \in [1..k -> ImgMetas] :
             loc = [img_metas |-> ms, proposals |-> ps, rois |-> <<>>,
                    bbox_results |-> [cls_score |-> <<>>, bbox_pred |-> None]]
    /\ results = [det_bboxes |-> <<>>, det_labels |-> <<>>]
    /\ raised = ""

NumClasses == 2        \* self.mask_head.num_classes

\* the detections of one image: rows (x1, y1, x2, y2, score) and their labels
Detections(n) ==
    { [bboxes |-> [j \in DOMAIN bs |-> [box |-> bs[j], score |-> 9]],
       labels |-> [j \in DOMAIN bs |-> IF bs[j] = <<0, 0, 2, 2>> THEN 0 ELSE 1]] :
        bs \in BoxLists(n) }

\* all(det_bbox.shape[0] == 0 for det_bbox in det_bboxes)
SomeEmpty(det_bboxes) == \E i \in DOMAIN det_bboxes : Len(det_bboxes[i]) = 0
all_empty(det_bboxes) == \A i \in DOMAIN det_bboxes : Len(det_bboxes[i]) = 0

\* [[] for _ in range(self.mask_head.num_classes)]
EmptyLists == [c \in 1..NumClasses |-> <<>>]

\* det_bboxes[i][:, :4] * scale_factors[i] if rescale else det_bboxes[i][:, :4]
TestScaleBoxes(det_bbox, scale_factor, rescale) ==
    [j \in DOMAIN det_bbox |->
        IF rescale
        THEN [k \in 1..4 |-> det_bbox[j].box[k] * scale_factor]
        ELSE det_bbox[j].box]

\* self._mask_forward(x, mask_rois): one mask row per roi
mask_forward(mask_rois) ==
    [j \in DOMAIN mask_rois |-> [head |-> "mask", row |-> j, roi |-> mask_rois[j]]]

RECURSIVE SegmsOfClass(_, _, _, _, _)
\* the masks of the detections j.. whose label is c, in detection order
SegmsOfClass(c, j, mask_pred, det_labels, paste) ==
    IF j > Len(det_labels) THEN <<>>
    ELSE (IF det_labels[j] = c
          THEN << [mask_pred |-> mask_pred[j], paste |-> paste[j]] >>
          ELSE <<>>)
         \o SegmsOfClass(c, j + 1, mask_pred, det_labels, paste)

\* self.mask_head.get_seg_masks(mask_pred, det_bboxes, det_labels, rcnn_test_cfg,
\*     ori_shape, scale_factor, rescale): per class, the masks of its detections
get_seg_masks(mask_pred, bboxes, det_labels, ori_shape, scale_factor, rescale) ==
    LET paste == [j \in DOMAIN bboxes |->
                    [box |-> bboxes[j], ori_shape |-> ori_shape,
                     scale_factor |-> scale_factor, rescale |-> rescale]]
    IN  [c \in 1..NumClasses |->
            SegmsOfClass(c - 1, 1, mask_pred, det_labels, paste)]

\* simple_test_mask(x, img_metas, det_bboxes, det_labels, rescale)
simple_test_mask(img_metas, det_bboxes, det_labels, rescale) ==
    IF all_empty(det_bboxes)
    THEN [err |-> "", mask_rois |-> <<>>, mask_pred |-> <<>>, forwards |-> 0,
          segm_results |-> [i \in DOMAIN det_bboxes |-> EmptyLists]]
    ELSE LET bboxes == [i \in DOMAIN det_bboxes |->
                          TestScaleBoxes(det_bboxes[i],
                                         img_metas[i].scale_factor, rescale)]
             mask_rois == bbox2roi(bboxes, 1)
             mask_pred == mask_forward(mask_rois)
             num_mask_roi_per_img == [i \in DOMAIN det_bboxes |->
                                         Len(det_bboxes[i])]
             mask_preds == split(mask_pred, num_mask_roi_per_img)
         IN  [err |-> mask_preds.err,
              mask_rois |-> mask_rois,
              mask_pred |-> mask_pred,
              forwards |-> 1,
              segm_results |->
                 IF mask_preds.err # "" THEN <<>>
                 ELSE [i \in DOMAIN det_bboxes |->
                         IF Len(det_bboxes[i]) = 0 THEN EmptyLists
                         ELSE get_seg_masks(mask_preds.chunks[i], bboxes[i],
                                            det_labels[i],
                                            img_metas[i].ori_shape,
                                            img_metas[i].scale_factor,
                                            rescale)]]

\* MaskTestMixin.simple_test_mask
SimpleTestMask ==
    /\ tpc = "call"
    /\ cfg.type = "simple_test_mask"
    /\ LET o == simple_test_mask(loc.img_metas,
                                 [i \in DOMAIN loc.dets |-> loc.dets[i].bboxes],
                                 [i \in DOMAIN loc.dets |-> loc.dets[i].labels],
                                 cfg.rescale)
       IN  /\ raised' = o.err
           /\ results' = [segm_results |-> o.segm_results]
           /\ loc' = [loc EXCEPT !.mask_rois = o.mask_rois,
                                 !.mask_pred = o.mask_pred,
                                 !.forwards = o.forwards]
           /\ tpc' = IF o.err = "" THEN "returned" ELSE "raised_at_call"
    /\ UNCHANGED <<cfg, inferVars, dataVars>>

InitMaskTest ==
    /\ InferIdle
    /\ DataIdle
    /\ tpc = "call"
    /\ cfg \in { [type |-> "simple_test_mask", rescale |-> s] : s \in BOOLEAN }
    /\ \E k \in 1..MaxBatchImgs :
          \E ds \in [1..k -> Detections(MaxProposals)], ms \in [1..k -> ImgMetas] :
             loc = [img_metas |-> ms, dets |-> ds, mask_rois |-> <<>>,
                    mask_pred |-> <<>>, forwards |-> 0]
    /\ results = [segm_results |-> <<>>]
    /\ raised = ""

InitRoi == InitBboxTest \/ InitMaskTest

NextRoi == SimpleTestBboxes \/ SimpleTestMask

SpecRoi == InitRoi /\ [][NextRoi]_vars

----------------------------------------------------------------------------
(* JointRandomCrop.  Boxes have whole-pixel coordinates, for which the
   subtraction of the offset is exact; a label is the index of its row in the
   input and a mask records the index of its row and the window it was
   cropped with. *)

MaxRandCropBoxes == 2   \* most rows of gt_bboxes

\* self.bbox2label.get(key), self.bbox2mask.get(key)
bbox2label(key) == IF key = "gt_bboxes" THEN "gt_labels" ELSE "gt_labels_ignore"
bbox2mask(key) == IF key = "gt_bboxes" THEN "gt_masks" ELSE "gt_masks_ignore"

\* results[key] - bbox_offset, clipped to img_shape
CropShiftBox(b, offset_h, offset_w, img_shape) ==
    << Clip(b[1] - offset_w, 0, img_shape[2]),
       Clip(b[2] - offset_h, 0, img_shape[1]),
       Clip(b[3] - offset_w, 0, img_shape[2]),
       Clip(b[4] - offset_h, 0, img_shape[1]) >>

\* valid_inds = (bboxes[:, 2] > bboxes[:, 0]) & (bboxes[:, 3] > bboxes[:, 1])
valid_inds(bboxes) ==
    [j \in DOMAIN bboxes |-> bboxes[j][3] > bboxes[j][1] /\ bboxes[j][4] > bboxes[j][2]]

RECURSIVE SelectFrom(_, _, _)
SelectFrom(rows, valid, j) ==
    IF j > Len(rows) THEN <<>>
    ELSE (IF valid[j] THEN <<rows[j]>> ELSE <<>>) \o SelectFrom(rows, valid, j + 1)

\* rows[valid_inds]
KeepAllRows(rows, valid) == rows
Select(rows, valid) == SelectFrom(rows, valid, 1)

RECURSIVE crop_bbox_fields(_, _, _, _)
\* the loop over bbox_fields from the i-th key on; rejected when it returns None
crop_bbox_fields(self, r, win, i) ==
    IF i > Len(r.bbox_fields) THEN [rejected |-> FALSE, r |-> r]
    ELSE LET key == r.bbox_fields[i]
             bboxes == [j \in DOMAIN r[key] |->
                          CropShiftBox(r[key][j], win[2], win[1], r.img_shape)]
             valid == valid_inds(bboxes)
             label_key == bbox2label(key)
             mask_key == bbox2mask(key)
             r1 == [r EXCEPT ![key] = Select(bboxes, valid)]
             r2 == IF r1[label_key] # None
                   THEN [r1 EXCEPT ![label_key] = Some(Select(r1[label_key][1], valid))]
                   ELSE r1
             r3 == IF r2[mask_key] # None
                   THEN [r2 EXCEPT ![mask_key] =
                            Some([m \in DOMAIN Select(r2[mask_key][1], valid) |->
                                    [Select(r2[mask_key][1], valid)[m]
                                        EXCEPT !.crop = Some(win)]])]
                   ELSE r2
         IN  IF /\ key = "gt_bboxes"
                /\ ~\E j \in DOMAIN valid : valid[j]
                /\ ~self.allow_negative_crop
             THEN [rejected |-> TRUE, r |-> r]
             ELSE crop_bbox_fields(self, r3, win, i + 1)

\* JointRandomCrop.__call__ with the offsets drawn, for the field "img"
joint_random_crop(self, r, offset_h, offset_w) ==
    LET crop_y2 == offset_h + self.crop_size[1]
        crop_x2 == offset_w + self.crop_size[2]
        img_shape == << Min(crop_y2, r.img[1]) - offset_h,
                        Min(crop_x2, r.img[2]) - offset_w >>
        win == <<offset_w, offset_h, crop_x2, crop_y2>>
    IN  crop_bbox_fields(self, [r EXCEPT !.img = img_shape,
                                         !.img_shape = img_shape], win, 1)

RandCropCfgs ==
    { [type |-> "JointRandomCrop", crop_size |-> cs, allow_negative_crop |-> a] :
        cs \in { <<2, 3>>, <<4, 4>>, <<5, 5>> }, a \in BOOLEAN }

RandCropBoxes == { <<0, 0, 2, 2>>, <<1, 1, 4, 3>>, <<3, 2, 4, 4>>, <<4, 0, 6, 1>> }

\* most rows of gt_bboxes_ignore
RandCropIgnores == 1

RandCropRecords ==
    { [img |-> sh, img_shape |-> sh,
       bbox_fields |-> bf,
       gt_bboxes |-> bs,
       gt_labels |-> IF paired THEN Some([j \in DOMAIN bs |-> j]) ELSE None,
       gt_masks |-> IF paired
                    THEN Some([j \in DOMAIN bs |-> [row |-> j, crop |-> None]])
                    ELSE None,
       gt_bboxes_ignore |-> ig,
       gt_labels_ignore |-> IF paired THEN Some([j \in DOMAIN ig |-> j]) ELSE None,
       gt_masks_ignore |-> None] :
        sh \in { <<4, 4>>, <<3, 6>> },
        bf \in { <<"gt_bboxes">>, <<"gt_bboxes", "gt_bboxes_ignore">>,
                 <<"gt_bboxes_ignore", "gt_bboxes">> },
        bs \in UNION { [1..k -> RandCropBoxes] : k \in 0..MaxRandCropBoxes },
        ig \in UNION { [1..k -> {<<1, 1, 4, 3>>}] : k \in 0..RandCropIgnores },
        paired \in BOOLEAN }

\* JointRandomCrop.__call__(results)
JointRandomCropCall ==
    /\ tpc = "call"
    /\ cfg.type = "JointRandomCrop"
    /\ LET margin_h == Max(results.img[1] - cfg.crop_size[1], 0)
           margin_w == Max(results.img[2] - cfg.crop_size[2], 0)
       IN  \E offset_h \in 0..margin_h, offset_w \in 0..margin_w :
              LET o == joint_random_crop(cfg, results, offset_h, offset_w)
              IN  /\ results' = o.r
                  /\ tpc' = IF o.rejected THEN "returned_none" ELSE "returned"
                  /\ loc' = [loc EXCEPT !.offset = <<offset_h, offset_w>>]
    /\ UNCHANGED <<cfg, raised, inferVars, dataVars>>

InitRandCrop ==
    /\ InferIdle
    /\ DataIdle
    /\ tpc = "call"
    /\ cfg \in RandCropCfgs
    /\ results \in RandCropRecords
    /\ loc = [input |-> results, offset |-> <<0, 0>>]
    /\ raised = ""

NextRandCrop == JointRandomCropCall

SpecRandCrop == InitRandCrop /\ [][NextRandCrop]_vars

----------------------------------------------------------------------------
(* JointRandomFlip.__call__.  flip_ratio is a float, in tenths, or None; a key
   that is absent from the record holds None, the value None of Python under
   the key flip_direction is "None"; the image is the sequence of the flips
   applied to it. *)

\* direction_list: self.direction + [None] or [self.direction, None]
direction_list(self) ==
    IF self.direction.kind = "list" THEN self.direction.ds \o <<"None">>
    ELSE <<self.direction.d, "None">>

\* the values np.random.choice(direction_list, p=flip_ratio_list) can return:
\* each direction has probability flip_ratio / (len(direction_list) - 1), None
\* has 1 - flip_ratio
cur_dir_choices(self) ==
    LET dl == direction_list(self)
        flip_ratio == self.flip_ratio[1]
    IN  { dl[i] : i \in { k \in DOMAIN dl :
                            IF k = Len(dl) THEN flip_ratio < 10
                            ELSE flip_ratio > 0 } }

\* the body of "if results['flip']"
flip_fields(self, r) ==
    LET d == r.flip_direction[1]
        o == bbox_flip(r.gt_bboxes, r.img_shape, d)
    IN  [err |-> o.err,
         r |-> [r EXCEPT !.img = Append(@, d), !.gt_bboxes = o.flipped]]

\* JointRandomFlip.__call__ from "if 'flip_direction' not in results" on;
\* bound tells whether the local cur_dir has been assigned
flip_with(self, r, bound, cur_dir) ==
    IF r.flip_direction = None /\ ~bound
    THEN [err |-> "UnboundLocalError", r |-> r]
    ELSE LET r1 == IF r.flip_direction = None
                   THEN [r EXCEPT !.flip_direction = Some(cur_dir)] ELSE r
         IN  IF r1.flip[1] THEN flip_fields(self, r1)
             ELSE [err |-> "", r |-> r1]

\* JointRandomFlip.__call__(results): the outcomes of one call, with the
\* number of random draws made
joint_random_flip(self, r) ==
    IF r.flip # None
    THEN { [draws |-> 0] @@ flip_with(self, r, FALSE, "None") }
    ELSE IF self.flip_ratio = None
    THEN { [draws |-> 0, err |-> "TypeError", r |-> r] }
    ELSE { [draws |-> 1] @@
             flip_with(self, [r EXCEPT !.flip = Some(cur_dir # "None")],
                       TRUE, cur_dir) : cur_dir \in cur_dir_choices(self) }

FlipCallCfgs ==
    { [type |-> "JointRandomFlip", flip_ratio |-> fr, direction |-> d] :
        fr \in { None, Some(0), Some(5), Some(10) },
        d \in { [kind |-> "str", d |-> "horizontal"],
                [kind |-> "list", ds |-> <<"horizontal", "vertical">>] } }

FlipCallRecords ==
    { [img |-> <<>>, img_shape |-> <<6, 8>>, gt_bboxes |-> bs,
       flip |-> f, flip_direction |-> fd] :
        bs \in { <<>>, << <<0, 1, 8, 16>> >> },
        f \in { None, Some(TRUE), Some(FALSE) },
        fd \in { None, Some("horizontal"), Some("vertical"), Some("diagonal") } }

\* JointRandomFlip.__call__(results)
JointRandomFlipCall ==
    /\ tpc = "call"
    /\ cfg.type = "JointRandomFlip"
    /\ \E o \in joint_random_flip(cfg, results) :
          /\ raised' = o.err
          /\ results' = o.r
          /\ loc' = [loc EXCEPT !.draws = o.draws]
          /\ tpc' = IF o.err = "" THEN "returned" ELSE "raised_at_call"
    /\ UNCHANGED <<cfg, inferVars, dataVars>>

InitFlipCall ==
    /\ InferIdle
    /\ DataIdle
    /\ tpc = "call"
    /\ cfg \in FlipCallCfgs
    /\ results \in FlipCallRecords
    /\ loc = [input |-> results, draws |-> 0]
    /\ raised = ""

NextFlipCall == JointRandomFlipCall

SpecFlipCall == InitFlipCall /\ [][NextFlipCall]_vars

----------------------------------------------------------------------------
(* Claims *)

\* the positions of the references at the least distance from query i
NearestRefs(i) ==
    { j \in DOMAIN outputs_ref.embeddings :
        \A m \in DOMAIN outputs_ref.embeddings :
            dist_func(outputs_qry.embeddings[i], outputs_ref.embeddings[j])
              <= dist_func(outputs_qry.embeddings[i], outputs_ref.embeddings[m]) }

\* C1: with k=1 in the rank list, every query gets label_mapping[L], L being
\* the label of a reference nearest to it, and after save_submit_json the
\* annotation with the query's bbox id carries that query-side category id.
C1_Top1IsMapped ==
    /\ (outputs.ready /\ 1 \in DOMAIN outputs.labels) =>
          \A i \in DOMAIN outputs.bbox_ids :
              \E j \in NearestRefs(i) :
                  outputs.labels[1][i] = label_mapping[outputs_ref.labels[j]]
    /\ (outputs.ready /\ out_json.written) =>
          \A a \in DOMAIN out_json.annotations :
              \A i \in DOMAIN outputs.bbox_ids :
                  outputs.bbox_ids[i] = out_json.annotations[a].id =>
                      \E j \in NearestRefs(i) :
                          out_json.annotations[a].category_id =
                              label_mapping[outputs_ref.labels[j]]

\* the reference labels of query i in ascending-distance order, cut at k
VoteWindow(i, k) ==
    [a \in 1..Min(k, Len(mat_inds[i])) |-> outputs_ref.labels[mat_inds[i][a]]]

VoteCount(w, W) == Cardinality({a \in DOMAIN w : w[a] = W})

VoteFirst(w, W) == CHOOSE a \in DOMAIN w : w[a] = W /\ \A b \in DOMAIN w : w[b] = W => a <= b

\* W has the highest count in the window and, among the labels with that
\* count, the earliest first occurrence
IsVoteWinner(w, W) ==
    /\ W \in Range(w)
    /\ \A V \in Range(w) \ {W} :
          \/ VoteCount(w, V) < VoteCount(w, W)
          \/ VoteCount(w, V) = VoteCount(w, W) /\ VoteFirst(w, W) < VoteFirst(w, V)

\* the first Min(k, n) positions of mat_inds[i] hold k nearest references
WindowIsNearest(i, k) ==
    /\ mat_inds[i] \in Perms(Len(outputs_ref.embeddings))
    /\ \A a, b \in DOMAIN mat_inds[i] :
          (a <= k /\ b > k) =>
              dist_func(outputs_qry.embeddings[i], outputs_ref.embeddings[mat_inds[i][a]])
                <= dist_func(outputs_qry.embeddings[i], outputs_ref.embeddings[mat_inds[i][b]])

\* C2: for each k > 1 of the rank list and each query, the label assigned is
\* label_mapping[W], W being the most frequent label among the k nearest
\* references, a tie going to the label that occurs first in
\* ascending-distance order.
C2_MajorityVote ==
    outputs.ready =>
        \A k \in DOMAIN outputs.labels : k > 1 =>
            /\ DOMAIN outputs.labels[k] = DOMAIN outputs_qry.embeddings
            /\ \A i \in DOMAIN outputs_qry.embeddings :
                  /\ WindowIsNearest(i, k)
                  /\ \E W \in Range(VoteWindow(i, k)) :
                        /\ IsVoteWinner(VoteWindow(i, k), W)
                        /\ outputs.labels[k][i] = label_mapping[W]

\* a vote over two neighbours tied one to one, won by the first-met label 2
C2_Witness ==
    /\ outputs.ready
    /\ 2 \in DOMAIN outputs.labels
    /\ \E i \in DOMAIN outputs_qry.embeddings :
          /\ VoteWindow(i, 2) = <<2, 1>>
          /\ outputs.labels[2][i] = label_mapping[2]

\* C3: the keys of the mapping are exactly the reference category ids; a
\* reference id maps to the id of a query category of the identical name when
\* there is one, and to 0 otherwise; no error is raised.
C3_LabelMapping ==
    (pc = "EMBED_REFERENCE") =>
        /\ error = ""
        /\ DOMAIN label_mapping = { ref_cats[j].id : j \in DOMAIN ref_cats }
        /\ \A j \in DOMAIN ref_cats :
              IF \E m \in DOMAIN qry_cats : qry_cats[m].name = ref_cats[j].name
              THEN \E m \in DOMAIN qry_cats :
                      /\ qry_cats[m].name = ref_cats[j].name
                      /\ label_mapping[ref_cats[j].id] = qry_cats[m].id
              ELSE label_mapping[ref_cats[j].id] = 0

\* a mapping built with one name matched and one name that differs only in
\* the case of a letter
C3_Witness ==
    /\ pc = "EMBED_REFERENCE"
    /\ \E j, n \in DOMAIN ref_cats :
          /\ ref_cats[j].name = "Apple" /\ ref_cats[n].name = "banana"
          /\ \E m \in DOMAIN qry_cats : qry_cats[m].name = "apple"
          /\ \E m \in DOMAIN qry_cats : qry_cats[m].name = "banana"
          /\ \A m \in DOMAIN qry_cats : qry_cats[m].name # "Apple"
          /\ label_mapping[ref_cats[j].id] = 0
          /\ label_mapping[ref_cats[n].id] # 0

\* every annotation id of the detection file has an inferred label
LabelsCoverFile ==
    \A j \in DOMAIN det_json.annotations :
        \E i \in DOMAIN outputs.bbox_ids : outputs.bbox_ids[i] = det_json.annotations[j].id

\* the label inferred for a bbox id
InferredLabel(id) ==
    outputs.labels[1][CHOOSE i \in DOMAIN outputs.bbox_ids : outputs.bbox_ids[i] = id]

KeepsScore(ann) == ann.score >= det_score_thr

FuseReturned == pc \in {"done", "failed"}

\* C4: with labels covering every annotation id, the output holds exactly the
\* annotations of score >= score_thr, in their original order, each with the
\* label inferred for its id as category_id.
C4_FusedAnnotations ==
    (FuseReturned /\ LabelsCoverFile) =>
        /\ out_json.written
        /\ LET kept == SelectSeq(det_json.annotations, KeepsScore)
           IN  /\ Len(out_json.annotations) = Len(kept)
               /\ \A a \in DOMAIN kept :
                     out_json.annotations[a] =
                        [kept[a] EXCEPT !.category_id = InferredLabel(kept[a].id)]
        /\ \A a \in DOMAIN out_json.annotations :
              out_json.annotations[a].score >= det_score_thr

\* a fusion that dropped an annotation and kept one whose score is the threshold
C4_Witness ==
    /\ pc = "done" /\ LabelsCoverFile
    /\ \E j \in DOMAIN det_json.annotations : det_json.annotations[j].score < det_score_thr
    /\ \E a \in DOMAIN out_json.annotations :
          /\ out_json.annotations[a].score = det_score_thr
          /\ out_json.annotations[a].category_id = 11

\* C5: an annotation id without inferred label makes save_submit_json fail;
\* the annotation is neither skipped nor defaulted and no file is written.
C5_MissingLabelIsFatal ==
    (FuseReturned /\ ~LabelsCoverFile) =>
        /\ pc = "failed"
        /\ error = "AssertionError"
        /\ ~out_json.written

\* a failed fusion in which another annotation had its label
C5_Witness ==
    /\ pc = "failed" /\ ~out_json.written
    /\ Len(outputs.bbox_ids) >= 1
    /\ \E j \in DOMAIN det_json.annotations :
          /\ det_json.annotations[j].score >= det_score_thr
          /\ \A i \in DOMAIN outputs.bbox_ids :
                outputs.bbox_ids[i] # det_json.annotations[j].id

\* C6: the submission has the images of the detection file, and each of its
\* annotations is an annotation of the detection file with the same id,
\* image_id, bbox and score.
C6_FusionFrame ==
    out_json.written =>
        /\ out_json.images = det_json.images
        /\ \A a \in DOMAIN out_json.annotations :
              \E j \in DOMAIN det_json.annotations :
                  /\ out_json.annotations[a].id = det_json.annotations[j].id
                  /\ out_json.annotations[a].image_id = det_json.annotations[j].image_id
                  /\ out_json.annotations[a].bbox = det_json.annotations[j].bbox
                  /\ out_json.annotations[a].score = det_json.annotations[j].score
        /\ \A a, b \in DOMAIN out_json.annotations :
              a # b => out_json.annotations[a].id # out_json.annotations[b].id

\* a submission with images and a relabelled annotation
C6_Witness ==
    /\ out_json.written
    /\ Len(out_json.images) = 2
    /\ \E a \in DOMAIN out_json.annotations :
          \E j \in DOMAIN det_json.annotations :
              /\ out_json.annotations[a].id = det_json.annotations[j].id
              /\ out_json.annotations[a].category_id # det_json.annotations[j].category_id

\* C7: the annotation ids of the detection file are 0, 1, 2, ... in emission
\* order, hence distinct and increasing, and there are as many annotations
\* as detection rows over all images.
C7_AnnotationIds ==
    det_json.written =>
        /\ Len(det_json.annotations) = TotalRows(det_outputs.detections)
        /\ \A a \in DOMAIN det_json.annotations : det_json.annotations[a].id = a - 1
        /\ \A a, b \in DOMAIN det_json.annotations :
              a < b => det_json.annotations[a].id < det_json.annotations[b].id
        /\ \A a, b \in DOMAIN det_json.annotations :
              a < b => \E i, m \in DOMAIN det_json.images :
                          /\ i <= m
                          /\ det_json.images[i].id = det_json.annotations[a].image_id
                          /\ det_json.images[m].id = det_json.annotations[b].image_id

\* a file whose ids run on from the first image into the second
C7_Witness ==
    /\ det_json.written
    /\ Len(det_outputs.detections) = 2
    /\ Len(det_outputs.detections[1]) = 2
    /\ Len(det_outputs.detections[2]) >= 1
    /\ det_json.annotations[3].image_id = det_outputs.img_ids[2]
    /\ det_json.annotations[3].id = 2

\* C8: the stages of a run are executed in the order of StageOrder, each
\* once; the fuse stage comes after the detection file was written and label
\* inference comes after both embedding stages.
C8_StageOrder ==
    /\ IsPrefix(trace, StageOrder)
    /\ pc \in {"done", "failed"} => trace = StageOrder
    /\ pc \notin {"done", "failed"} => pc = StageOrder[Len(trace) + 1]
    /\ pc = "FUSE_AND_SERIALIZE" => det_json.written /\ outputs.ready
    /\ pc = "INFER_LABELS" => outputs_ref.ready /\ outputs_qry.ready
    /\ out_json.written => det_json.written

\* a finished run that wrote a submission with an annotation
C8_Witness ==
    /\ pc = "done"
    /\ trace = StageOrder
    /\ out_json.written
    /\ Len(out_json.annotations) >= 1

\* C9: in training mode a rejected index i is retried with an index that is
\* different from i and of the aspect-ratio group of i.
C9_RetryWithAnotherIndex ==
    [][(dpc = "check" /\ dpc' = "prepare_train_img") =>
          /\ idx' # idx
          /\ flag(data_infos, idx') = flag(data_infos, idx)]_vars

\* C10: no field of a None returned by a pipeline is ever read.
C10_NoneNeverDereferenced == ~none_deref

\* the other indices drawn by batch_rand_others for the tile tiles[1]
OtherTiles == [a \in 1..(Len(tiles) - 1) |-> tiles[a + 1]]

\* the indices of the aspect-ratio group of i, i left out
GroupOthers(i) ==
    { j \in DOMAIN data_infos :
        j # i /\ (data_infos[j].width > data_infos[j].height)
                   = (data_infos[i].width > data_infos[i].height) }

\* C11: batch_rand_others(idx, n) returns n indices of the group of idx; none
\* is idx when the group has another member; they are pairwise distinct when
\* the group has at least n other members; idx itself is returned only when
\* idx is alone in its group.
C11_BatchRandOthers ==
    tiles # <<>> =>
        /\ Len(OtherTiles) = BatchOthers
        /\ \A a \in DOMAIN OtherTiles :
              OtherTiles[a] \in GroupOthers(tiles[1]) \cup {tiles[1]}
        /\ GroupOthers(tiles[1]) # {} =>
              \A a \in DOMAIN OtherTiles : OtherTiles[a] # tiles[1]
        /\ Cardinality(GroupOthers(tiles[1])) >= BatchOthers =>
              \A a, b \in DOMAIN OtherTiles : a # b => OtherTiles[a] # OtherTiles[b]
        /\ (\E a \in DOMAIN OtherTiles : OtherTiles[a] = tiles[1]) =>
              GroupOthers(tiles[1]) = {}

\* a draw from a group of two other members, one of them drawn twice
C11_Witness ==
    /\ tiles # <<>>
    /\ Cardinality(GroupOthers(tiles[1])) = 2
    /\ OtherTiles[1] = OtherTiles[3]
    /\ OtherTiles[1] # OtherTiles[2]
    /\ \A a \in DOMAIN OtherTiles : OtherTiles[a] # tiles[1]

\* a draw without repetition from a group of three other members
C11_DistinctDraw ==
    /\ tiles # <<>>
    /\ Cardinality(GroupOthers(tiles[1])) = 3
    /\ \A a, b \in DOMAIN OtherTiles : a # b => OtherTiles[a] # OtherTiles[b]

\* C12: constructing Pad succeeds exactly when one of size and size_divisor
\* is set; with both or neither the failure is raised by the constructor,
\* before any record is processed.
C12_PadExactlyOne ==
    (cfg.type = "Pad" /\ tpc # "init") =>
        IF (cfg.size # None) # (cfg.size_divisor # None)
        THEN tpc \in {"constructed", "returned"} /\ raised = ""
        ELSE tpc = "raised_at_init" /\ raised # "" /\ results = NoResults

\* Pad constructed with both size and size_divisor
C12_Witness ==
    /\ cfg.type = "Pad"
    /\ cfg.size # None /\ cfg.size_divisor # None
    /\ tpc = "raised_at_init"

\* the configurations that select one multi-scale mode of JointResize
SelectsMode(c) ==
    LET a == c.img_scale
        n == IF a.kind = "list_of_list" THEN Len(a.vs)
             ELSE IF a.kind = "list" THEN 1 ELSE 0
    IN  IF c.ratio_range # None
        THEN n = 1 /\ c.ratio_range[1][1] <= c.ratio_range[1][2]
        ELSE \/ n = 1 /\ c.multiscale_mode \in {"range", "value"}
             \/ n = 2 /\ c.multiscale_mode = "range"
             \/ n >= 1 /\ c.multiscale_mode = "value"

\* C13: JointResize is constructed exactly for the configurations that
\* select one multi-scale mode; every other configuration is rejected by
\* the constructor and none fails at call time.
C13_ValidatedAtConstruction ==
    (cfg.type = "JointResize" /\ tpc # "init") =>
        /\ tpc # "raised_at_call"
        /\ (tpc = "raised_at_init") = ~SelectsMode(cfg)

\* a box array whose coordinates are all whole pixels
WholePixels(bboxes) ==
    \A i \in DOMAIN bboxes : \A c \in DOMAIN bboxes[i] : bboxes[i][c] % Grid = 0

Survivors(key) ==
    SelectSeq(loc.input[key], LAMBDA b : CenterInPatch(b, loc.patch))

\* a call of MinIoURandomCrop that returned a crop of a record with boxes
CropAccepted ==
    /\ cfg.type = "MinIoURandomCrop"
    /\ tpc = "returned"
    /\ loc.mode # KeepOriginal
    /\ Len(ConcatFields(loc.input, loc.input.bbox_fields)) > 0

\* C15: when MinIoURandomCrop returns a crop of a record with at least one
\* box, every box that survives has an IoU with the patch of at least the
\* sampled threshold (as it lay in the input and as it is returned, clipped),
\* and the centre of at least one box lies strictly inside the patch.
C15_MinIoUOfSurvivors ==
    CropAccepted =>
        /\ \A k \in DOMAIN loc.input.bbox_fields :
              LET key == loc.input.bbox_fields[k]
              IN  /\ results[key] = ClipToPatch(loc.input[key], loc.patch)
                  /\ Len(results[key]) = Len(Survivors(key))
                  /\ \A i \in DOMAIN Survivors(key) :
                        IoUAtLeast(loc.patch, Survivors(key)[i], loc.mode)
                  /\ \A i \in DOMAIN results[key] :
                        IoUAtLeast(<<0, 0, results.img_shape[2],
                                     results.img_shape[1]>>,
                                   results[key][i], loc.mode)
        /\ \E k \in DOMAIN loc.input.bbox_fields :
              Survivors(loc.input.bbox_fields[k]) # <<>>

\* a crop smaller than the image, accepted under the threshold 0.5, that
\* keeps a box and drops another
C15_Witness ==
    /\ CropAccepted
    /\ loc.mode = 5
    /\ results.img_shape # loc.input.img_shape
    /\ Len(results.gt_bboxes) + Len(results.gt_bboxes_ignore) >= 1

\* C16: under fair random choice of the mode every call of MinIoURandomCrop
\* returns in the end; a mode other than 1 gives up after 50 attempts and a
\* new mode is drawn.
C16_EventuallyReturns ==
    /\ (cfg.type = "MinIoURandomCrop") ~> (tpc = "returned")
    /\ [](cfg.type = "MinIoURandomCrop" => loc.i <= CropAttempts)

\* a mode under which the record has a crop has used up its 50 attempts
C16_Witness ==
    /\ cfg.type = "MinIoURandomCrop"
    /\ tpc = "attempt"
    /\ loc.i = CropAttempts
    /\ loc.mode = 0

\* C17: in train mode RandomCenterCropPad returns a record with at least
\* one gt box for every input with at least one gt box, and without boxes in
\* the input the first sampled crop is returned.
C17_KeepsABox ==
    (cfg.type = "RandomCenterCropPad" /\ ~cfg.test_mode) =>
        /\ (tpc = "returned" /\ Len(loc.input.gt_bboxes) >= 1)
              => Len(results.gt_bboxes) >= 1
        /\ Len(loc.input.gt_bboxes) = 0 => ~loc.retried

\* bit k of n
Bit(n, k) == (n \div Pow2(k)) % 2

\* C18: in test mode the output of RandomCenterCropPad is a function of the
\* input: its height and width are h | v and w | v under 'logical_or', the
\* least multiples of v that are >= h and >= w under 'size_divisor', and
\* never less than h and w.
C18_TestPadShape ==
    (cfg.type = "RandomCenterCropPad" /\ cfg.test_mode /\ tpc = "returned") =>
        LET v == cfg.test_pad_mode[2]
        IN  /\ results = test_aug(loc.input, cfg)
            /\ \A d \in 1..2 :
                  LET n == loc.input.img_shape[d]
                      out == results.pad_shape[d]
                  IN  /\ out >= n
                      /\ cfg.test_pad_mode[1] = "logical_or" =>
                            \A k \in 0..4 :
                               Bit(out, k) = Max(Bit(n, k), Bit(v, k))
                      /\ cfg.test_pad_mode[1] = "size_divisor" =>
                            out % v = 0 /\ out - v < n

\* an image of height 5 padded under 'logical_or' with 3, and under
\* 'size_divisor' to a larger width
C18_Witness ==
    /\ cfg.type = "RandomCenterCropPad" /\ cfg.test_mode /\ tpc = "returned"
    /\ loc.input.img_shape = <<5, 8>>
    /\ \/ cfg.test_pad_mode = <<"logical_or", 3>> /\ results.pad_shape = <<7, 11>>
       \/ cfg.test_pad_mode = <<"size_divisor", 3>> /\ results.pad_shape = <<6, 9>>

\* the greatest height or width among the four tiles
MaxTileSide ==
    CHOOSE m \in { loc.mosaic_results[i].pad_shape[d] : i \in 1..4, d \in 1..2 } :
        \A i \in 1..4, d \in 1..2 : loc.mosaic_results[i].pad_shape[d] <= m

\* C19: the mosaic canvas is a square of side 2 * max over the heights and
\* widths of the four tiles, and the placement rectangle of every tile lies
\* inside the canvas.
C19_TilesInsideCanvas ==
    (cfg.type = "MosaicPipeline" /\ tpc # "call") =>
        /\ loc.canvas_shape = << 2 * MaxTileSide, 2 * MaxTileSide >>
        /\ \A i \in 1..4 : SliceFits(loc.places[i], loc.canvas_shape)

\* the rows before those of tile i in a concatenated field
RowsBefore(key, i) ==
    Len(ConcatFields([t \in 1..4 |-> loc.mosaic_results[t][key]],
                     [t \in 1..(i - 1) |-> t]))

\* C20: in the mosaic output every bbox field has as many rows as the four
\* tiles together, each row is the row of its tile moved by the placement
\* offset of that tile, once, and gt_labels runs along gt_bboxes.
C20_BoxesOfAllTiles ==
    (cfg.type = "MosaicPipeline" /\ tpc = "returned") =>
        /\ \A f \in DOMAIN results.bbox_fields :
              LET key == results.bbox_fields[f]
              IN  /\ Len(results[key]) = RowsBefore(key, 5)
                  /\ \A i \in 1..4 :
                        \A k \in DOMAIN loc.mosaic_results[i][key] :
                           LET in_box == loc.mosaic_results[i][key][k]
                               out_box == results[key][RowsBefore(key, i) + k]
                           IN  /\ out_box[1] - in_box[1] = loc.places[i][1]
                               /\ out_box[3] - in_box[3] = loc.places[i][1]
                               /\ out_box[2] - in_box[2] = loc.places[i][2]
                               /\ out_box[4] - in_box[4] = loc.places[i][2]
        /\ Len(results.gt_labels) = Len(results.gt_bboxes)
        /\ \A i \in 1..4 : \A k \in DOMAIN loc.mosaic_results[i].gt_bboxes :
              results.gt_labels[RowsBefore("gt_bboxes", i) + k] = 10 * i + k

\* a mosaic of four tiles of different shapes, each with a box
C20_Witness ==
    /\ cfg.type = "MosaicPipeline" /\ tpc = "returned"
    /\ Len(results.gt_bboxes) = 4
    /\ Len(results.gt_bboxes_ignore) = 2
    /\ "gt_bboxes_ignore" \in Range(results.bbox_fields)
    /\ loc.mosaic_results[1].pad_shape # loc.mosaic_results[4].pad_shape

\* C21: calling a transform stage does not change the stage object: every
\* attribute of MinIoURandomCrop and of LetterResize keeps the value it had
\* after construction.
C21_StageUnchanged ==
    cfg.type \in {"MinIoURandomCrop", "LetterResize"} => cfg = loc.stage

\* the resized geometry of a map of the input record
ResizedInput(key) ==
    resized_shape(loc.input[key], results.scale[1], cfg.keep_ratio)

\* C22: after JointResize every field named in seg_fields holds the map of
\* the input resized to the new geometry, stored back under its own key,
\* whatever the field's name and however many fields seg_fields names.
C22_SegFieldsResized ==
    (tpc = "returned" /\ cfg.type = "JointResize" /\ loc # NoLoc)
        => \A i \in DOMAIN results.seg_fields :
              results[results.seg_fields[i]] = ResizedInput(results.seg_fields[i])

\* the number of proposals of the images before the i-th
RECURSIVE ProposalsBefore(_)
ProposalsBefore(i) ==
    IF i = 1 THEN 0
    ELSE ProposalsBefore(i - 1) + Len(loc.proposals[i - 1])

\* rows ProposalsBefore(i)+1 .. ProposalsBefore(i)+len(proposals[i]) of t
ChunkOf(t, i) ==
    [j \in 1..Len(loc.proposals[i]) |-> t[ProposalsBefore(i) + j]]

\* C23: simple_test_bboxes returns one (boxes, labels) pair per image in
\* input order; the i-th pair is decoded from the i-th chunk of the batched
\* rois, class scores and box predictions, the chunks being consecutive,
\* disjoint, of the sizes of the images' proposal lists and covering the
\* batch, with the i-th image's own shape and scale factor.
C23_PerImageChunks ==
    (cfg.type = "simple_test_bboxes" /\ tpc # "call")
        => /\ tpc = "returned"
           /\ Len(results.det_bboxes) = Len(loc.proposals)
           /\ Len(results.det_labels) = Len(loc.proposals)
           /\ ProposalsBefore(Len(loc.proposals) + 1) = Len(loc.rois)
           /\ \A i \in DOMAIN loc.proposals :
                 LET a == results.det_bboxes[i].args
                 IN  /\ results.det_bboxes[i].of = "bboxes"
                     /\ results.det_labels[i].of = "labels"
                     /\ results.det_labels[i].args = a
                     /\ a.rois = ChunkOf(loc.rois, i)
                     /\ \A j \in DOMAIN a.rois :
                           /\ a.rois[j].batch_ind = i - 1
                           /\ a.rois[j].box = loc.proposals[i][j]
                     /\ a.cls_score = ChunkOf(loc.bbox_results.cls_score, i)
                     /\ a.bbox_pred =
                           IF cfg.with_reg
                           THEN Some(ChunkOf(loc.bbox_results.bbox_pred[1], i))
                           ELSE None
                     /\ a.img_shape = loc.img_metas[i].img_shape
                     /\ a.scale_factor = loc.img_metas[i].scale_factor

\* two images with different numbers of proposals and different metas
C23_Witness ==
    /\ cfg.type = "simple_test_bboxes"
    /\ tpc = "returned"
    /\ Len(loc.proposals) = 2
    /\ Len(loc.proposals[1]) = 1
    /\ Len(loc.proposals[2]) = 2
    /\ loc.img_metas[1] # loc.img_metas[2]
    /\ Len(results.det_bboxes[2].args.rois) = 2

\* the detections of the images before the i-th
RECURSIVE DetsBefore(_)
DetsBefore(i) ==
    IF i = 1 THEN 0 ELSE DetsBefore(i - 1) + Len(loc.dets[i - 1].bboxes)

\* the masks of all classes of one image's result
MasksOf(segm) == UNION { { segm[c][j] : j \in DOMAIN segm[c] } : c \in DOMAIN segm }

\* C24: simple_test_mask returns one entry per image in input order; an image
\* without detected boxes gets num_classes empty lists, an image with boxes
\* gets the masks of its own boxes; when no image has a box the mask head is
\* never invoked.
C24_EmptyImages ==
    (cfg.type = "simple_test_mask" /\ tpc # "call")
        => /\ tpc = "returned"
           /\ Len(results.segm_results) = Len(loc.dets)
           /\ (\A i \in DOMAIN loc.dets : Len(loc.dets[i].bboxes) = 0)
                 => loc.forwards = 0
           /\ \A i \in DOMAIN loc.dets :
                 LET segm == results.segm_results[i]
                     n == Len(loc.dets[i].bboxes)
                 IN  /\ Len(segm) = NumClasses
                     /\ n = 0 => \A c \in DOMAIN segm : segm[c] = <<>>
                     /\ n > 0 =>
                           /\ Cardinality(MasksOf(segm)) = n
                           /\ \A m \in MasksOf(segm) :
                                 /\ m.mask_pred.roi.batch_ind = i - 1
                                 /\ m.mask_pred.row \in
                                       (DetsBefore(i) + 1)..(DetsBefore(i) + n)
                                 /\ m.paste.ori_shape = loc.img_metas[i].ori_shape

\* a batch whose first image has no box and whose second has two
C24_Witness ==
    /\ cfg.type = "simple_test_mask"
    /\ tpc = "returned"
    /\ Len(loc.dets) = 2
    /\ Len(loc.dets[1].bboxes) = 0
    /\ Len(loc.dets[2].bboxes) = 2
    /\ results.segm_results[1] = EmptyLists
    /\ results.segm_results[2] # EmptyLists
    /\ loc.forwards = 1

\* a batch of two images without boxes
C24_WitnessAllEmpty ==
    /\ cfg.type = "simple_test_mask"
    /\ tpc = "returned"
    /\ Len(loc.dets) = 2
    /\ \A i \in DOMAIN loc.dets : Len(loc.dets[i].bboxes) = 0
    /\ loc.forwards = 0

\* the rows of the input field key that keep positive area in the crop
KeptRows(key) ==
    { j \in DOMAIN loc.input[key] :
        LET b == CropShiftBox(loc.input[key][j], loc.offset[1], loc.offset[2],
                              results.img_shape)
        IN  b[3] > b[1] /\ b[4] > b[2] }

\* the field key of the returned record holds exactly the rows of kept, in
\* input order; ids[j] is the input row of the j-th output row
AlignedWith(ids, kept) ==
    /\ { ids[j] : j \in DOMAIN ids } = kept
    /\ Len(ids) = Cardinality(kept)
    /\ \A j, k \in DOMAIN ids : j < k => ids[j] < ids[k]

\* C25: when JointRandomCrop returns a record, each bbox field, its label
\* field and its mask field hold the same rows of the input in the same order,
\* every surviving box has positive width and height and lies within the
\* cropped image; it returns the reject sentinel only when no gt_bboxes box
\* keeps positive area and allow_negative_crop is False.
C25_CropKeepsFieldsAligned ==
    /\ (cfg.type = "JointRandomCrop" /\ tpc = "returned") =>
          \A i \in DOMAIN results.bbox_fields :
             LET key == results.bbox_fields[i]
                 kept == KeptRows(key)
                 bboxes == results[key]
                 labels == results[bbox2label(key)]
                 masks == results[bbox2mask(key)]
             IN  /\ Len(bboxes) = Cardinality(kept)
                 /\ \A j \in DOMAIN bboxes :
                       /\ bboxes[j][3] > bboxes[j][1]
                       /\ bboxes[j][4] > bboxes[j][2]
                       /\ 0 <= bboxes[j][1] /\ bboxes[j][3] <= results.img_shape[2]
                       /\ 0 <= bboxes[j][2] /\ bboxes[j][4] <= results.img_shape[1]
                 /\ labels # None =>
                       /\ AlignedWith(labels[1], kept)
                       /\ \A j \in DOMAIN bboxes :
                             bboxes[j] = CropShiftBox(loc.input[key][labels[1][j]],
                                            loc.offset[1], loc.offset[2],
                                            results.img_shape)
                 /\ masks # None =>
                       AlignedWith([j \in DOMAIN masks[1] |-> masks[1][j].row], kept)
    /\ (cfg.type = "JointRandomCrop" /\ tpc = "returned_none") =>
          /\ KeptRows("gt_bboxes") = {}
          /\ ~cfg.allow_negative_crop

\* a crop that drops the first of two boxes and keeps the second, with labels
C25_Witness ==
    /\ cfg.type = "JointRandomCrop"
    /\ tpc = "returned"
    /\ Len(loc.input.gt_bboxes) = 2
    /\ KeptRows("gt_bboxes") = {2}
    /\ results.gt_labels = Some(<<2>>)
    /\ Len(results.gt_bboxes) = 1

\* a crop that is rejected
C25_WitnessRejected ==
    /\ cfg.type = "JointRandomCrop"
    /\ tpc = "returned_none"
    /\ Len(loc.input.gt_bboxes) > 0

\* C26: in test mode RandomCenterCropPad pads without cropping: every row and
\* every column of the input image is present in the output image.
C26_TestPadsWithoutCropping ==
    (cfg.type = "RandomCenterCropPad" /\ cfg.test_mode /\ tpc = "returned")
        => results.img = <<0, 0, loc.input.img_shape[2], loc.input.img_shape[1]>>

\* C27: when the input record contains the key 'flip', JointRandomFlip makes
\* no random decision, completes, and flips the fields exactly when the flag
\* is true; also for a record without the key 'flip_direction'.
C27_GivenFlipFlagUsed ==
    (cfg.type = "JointRandomFlip" /\ tpc # "call" /\ loc.input.flip # None)
        => /\ tpc = "returned"
           /\ loc.draws = 0
           /\ results.flip = loc.input.flip
           /\ (results.img # loc.input.img) <=> loc.input.flip[1]

\* a training call is running on a group that holds an index the pipeline
\* can accept
AcceptableInGroup ==
    /\ ~test_mode
    /\ dpc \in {"prepare_train_img", "check"}
    /\ \E j \in rand_another_pool(data_infos, idx) :
          FALSE \in Compose(data_infos, j)

\* a training call is running on a group all of whose indices are rejected
AllRejectedInGroup ==
    /\ ~test_mode
    /\ dpc \in {"prepare_train_img", "check"}
    /\ \A j \in rand_another_pool(data_infos, idx) :
          Compose(data_infos, j) = {TRUE}

\* C28: in training mode __getitem__ never returns the reject sentinel; under
\* fair random resampling it eventually returns a record when some index of
\* the group of the starting index can be accepted by the pipeline; when every
\* index of the group is always rejected the call never returns.
C28_RetryLoop ==
    /\ []((~test_mode /\ dpc = "returned") => ~data.none)
    /\ AcceptableInGroup ~> (dpc = "returned")
    /\ [](AllRejectedInGroup => [](dpc # "returned"))

\* the same for a pipeline without MosaicPipeline
C28_RetryLoopPlain ==
    /\ []((~test_mode /\ dpc = "returned") => ~data.none)
    /\ (AcceptableInGroup /\ ~mosaic) ~> (dpc = "returned")
    /\ []((AllRejectedInGroup /\ ~mosaic) => [](dpc \notin {"returned", "raised"}))

\* the annotations of the detection file whose id has no inferred label
Unlabelled ==
    { j \in DOMAIN det_json.annotations :
        \A i \in DOMAIN outputs.bbox_ids :
            outputs.bbox_ids[i] # det_json.annotations[j].id }

\* C29: save_submit_json tests that a label exists for an annotation before
\* it tests the score: an annotation without label aborts the fusion even
\* when its score is below score_thr.
C29_AssertBeforeScore ==
    (FuseReturned /\ \E j \in Unlabelled :
                        det_json.annotations[j].score < det_score_thr)
        => /\ pc = "failed"
           /\ error = "AssertionError"
           /\ ~out_json.written

\* a failed fusion whose only annotations without label are below the threshold
C29_Witness ==
    /\ pc = "failed"
    /\ error = "AssertionError"
    /\ Unlabelled # {}
    /\ \A j \in Unlabelled : det_json.annotations[j].score < det_score_thr
    /\ Len(outputs.bbox_ids) >= 1

\* the position of the annotation id among the query bbox ids
QueryOf(id) == CHOOSE i \in DOMAIN outputs.bbox_ids : outputs.bbox_ids[i] = id

\* C30: run_emb_task fuses the labels inferred for k = 1 whatever top_k_list
\* holds: a written submission carries labels_top_1 only, and when 1 is not in
\* top_k_list the fusion fails with a missing key and writes no file.
C30_FusesTopOne ==
    (FuseReturned /\ outputs.ready) =>
        IF 1 \in Range(top_k_list)
        THEN /\ pc = "done"
             /\ out_json.written
             /\ \A a \in DOMAIN out_json.annotations :
                   out_json.annotations[a].category_id =
                      outputs.labels[1][QueryOf(out_json.annotations[a].id)]
        ELSE /\ pc = "failed"
             /\ error = "KeyError"
             /\ ~out_json.written

\* a submission written from labels_top_1 while labels_top_2 differ
C30_Witness ==
    /\ pc = "done"
    /\ top_k_list = <<1, 2, 3>>
    /\ \E a \in DOMAIN out_json.annotations :
          LET i == QueryOf(out_json.annotations[a].id)
          IN  /\ out_json.annotations[a].category_id = outputs.labels[1][i]
              /\ outputs.labels[2][i] # outputs.labels[1][i]

\* a run whose top_k_list lacks 1
C30_WitnessNoTopOne ==
    /\ pc = "failed"
    /\ error = "KeyError"
    /\ top_k_list = <<2>>
    /\ Len(det_json.annotations) >= 1

====
